---- MODULE Spec2Model ----
(***************************************************************************)
(* The mission scheduler of moose_core (scheduler.rs): the mission map,    *)
(* wave construction and the task / mission transitions.                   *)
(*                                                                         *)
(* A Task keeps the two fields the handlers read or branch on: depends_on  *)
(* and status.  agent_id, description and result are payload that no       *)
(* handler reads back, and created_at is written once and never read.      *)
(* Every handler takes the DashMap entry guard of one mission for its      *)
(* whole body, so one handler call is one step.                            *)
(*                                                                         *)
(* The message bus (messages.rs) and the vector memory (vector.rs) are     *)
(* called from several threads / tokio tasks: procs holds the position and *)
(* the locals of each caller, and a call is split wherever another caller  *)
(* can run in between.  ret is the return value of the call that returned  *)
(* last; hist records what has been returned or acquired so far.           *)
(*                                                                         *)
(* The inference router (router.rs) and the backend adapters (adapters/)   *)
(* are called the same way: router is the backend table, the model map and *)
(* their mutex, stream is the one streaming call under way with its        *)
(* channel.  episodic (episodic.rs) and workspace (workspace.rs) are the   *)
(* tables of the two stores.                                               *)
(***************************************************************************)
EXTENDS Integers, Sequences, FiniteSets, TLC

VARIABLES missions, ret, bus, vm, procs, clock, hist, router, stream, episodic, workspace

vars == <<missions, ret, bus, vm, procs, clock, hist, router, stream, episodic, workspace>>

(***************************************************************************)
(* Bounds of the model.                                                    *)
(***************************************************************************)
MaxTasks == 2        \* longest task list of a submission (Spec, SpecHost)
MaxDeps == 2         \* most pieces in one depends_on string
MaxCompleted == 5    \* cap of the completed_tasks counter

MissionIds == {"m1"}
TaskIds == {"a", "b"}
GhostId == "z"                        \* an id that is never a task of a mission
DiamondIds == {"A", "B", "C", "D"}    \* the tasks of the design's DAG scenario
CallIds == TaskIds \cup DiamondIds \cup {GhostId}   \* task ids a call may pass
DepPieces == TaskIds \cup {GhostId, ""}
Times == {1, 2}                       \* what Utc::now() may return
NoId == "noid"                        \* a descriptor without an "id" key
NoTask == "-"                         \* calls that take no task id
None == "None"

Range(s) == {s[i] : i \in 1..Len(s)}
SeqsUpTo(S, n) == UNION {[1..k -> S] : k \in 0..n}
SubsetsUpTo(S, n) == {x \in SUBSET S : Cardinality(x) <= n}
Perms(S) == {s \in [1..Cardinality(S) -> S] : Range(s) = S}

(***************************************************************************)
(* Task descriptors of a submission.  The depends_on string is modelled by *)
(* the set of its comma-separated pieces after trim ("" for a blank piece);*)
(* build_levels only tests membership of a dependency.                     *)
(***************************************************************************)
Descs(ids, pieces, maxD) == [id : ids, depends_on : SubsetsUpTo(pieces, maxD)]
TaskLists(ids, pieces, maxT, maxD) == SeqsUpTo(Descs(ids, pieces, maxD), maxT)

\* Uuid::new_v4() prefix for the descriptor at position i: fresh per descriptor.
UuidPool == <<"u1", "u2", "u3", "u4", "u5">>
Uuid(i) == UuidPool[i]

\* t.get("depends_on") split at ',', trimmed, empty pieces dropped.
ParseDependsOn(raw) == raw \ {""}

Task(deps) == [depends_on |-> deps, status |-> "pending"]

\* HashMap::insert: the later descriptor of a repeated id replaces the earlier.
MapInsert(map, k, v) == [x \in (DOMAIN map) \cup {k} |-> IF x = k THEN v ELSE map[x]]
MapRemove(map, ks) == [x \in (DOMAIN map) \ ks |-> map[x]]
EmptyMap == [x \in {} |-> None]

RECURSIVE BuildTaskMap(_, _, _)
BuildTaskMap(tasks, i, task_map) ==
    IF i > Len(tasks) THEN task_map
    ELSE LET t == tasks[i]
             id == IF t.id = NoId THEN Uuid(i) ELSE t.id
         IN BuildTaskMap(tasks, i + 1,
                         MapInsert(task_map, id, Task(ParseDependsOn(t.depends_on))))

(***************************************************************************)
(* Mission::build_levels.  order is the iteration order of the HashMap     *)
(* `remaining` (unspecified by the language; removals do not reorder the   *)
(* keys that stay).                                                        *)
(***************************************************************************)
\* Mutation of IsReady: `any` in place of `all`.
IsReadyAny(tasks, remaining, id) ==
    \E d \in tasks[id].depends_on : d \notin remaining

IsReady(tasks, remaining, id) ==
    \A d \in tasks[id].depends_on : d \notin remaining

\* Mutation of BuildLevelsLoop: the residue branch breaks without the push.
RECURSIVE BuildLevelsLoopDropResidue(_, _, _, _)
BuildLevelsLoopDropResidue(tasks, order, remaining, levels) ==
    IF remaining = {} THEN levels
    ELSE LET ready == SelectSeq(order, LAMBDA id : id \in remaining /\ IsReady(tasks, remaining, id))
         IN IF ready = <<>>
            THEN levels
            ELSE BuildLevelsLoopDropResidue(tasks, order, remaining \ Range(ready),
                                            Append(levels, ready))

RECURSIVE BuildLevelsLoop(_, _, _, _)
BuildLevelsLoop(tasks, order, remaining, levels) ==
    IF remaining = {} THEN levels
    ELSE LET ready == SelectSeq(order, LAMBDA id : id \in remaining /\ IsReady(tasks, remaining, id))
         IN IF ready = <<>>
            THEN Append(levels, SelectSeq(order, LAMBDA id : id \in remaining))
            ELSE BuildLevelsLoop(tasks, order, remaining \ Range(ready), Append(levels, ready))

build_levels(tasks, order) == BuildLevelsLoop(tasks, order, DOMAIN tasks, <<>>)

(***************************************************************************)
(* Callers, options and the clock.                                         *)
(* An Option is a sequence of at most one element.  Utc::now() reads a     *)
(* clock that no two reads see at the same instant: every read returns the *)
(* current instant and moves the clock on.                                 *)
(***************************************************************************)
Procs == {"p1", "p2"}
MaxClock == 6        \* reads of the clock in one run of one caller
MaxRaceClock == 5    \* reads of the clock in one run of two callers

Null == <<>>
Some(x) == <<x>>
UnwrapOr(opt, default) == IF opt = Null THEN default ELSE opt[1]

Idle == [pc |-> "idle"]
IdleProcs == [p \in Procs |-> Idle]

(***************************************************************************)
(* The message bus (messages.rs).  A row keeps the columns that send       *)
(* computes or pop_next reads; msg_type, sender and mission_id are stored  *)
(* as passed.  The payload column is the _injection_warning flag.  The id  *)
(* is drawn with the timestamp (lines 76-77): the instant stands for the   *)
(* fresh uuid.                                                             *)
(***************************************************************************)
Agents == {"r1", "r2"}
MaxMsgs == 3         \* rows in the table plus sends on their way, one caller
MaxRaceMsgs == 2     \* the same, two callers
PriorityArgs == {Null, Some(5)}

\* The words of a content, in lower case as (?i) reads them.
Lower(word) ==
    CASE word \in {"Ignore", "ignore"} -> "ignore"
      [] word \in {"SYSTEM:", "system:"} -> "system:"
      [] word \in {"Jailbreaking"} -> "jailbreaking"
      [] OTHER -> word

\* (?i)ignore\s+(all\s+)?previous\s+instructions? matched from word i on
IgnorePrevious(content, i) ==
    LET w(k) == IF k <= Len(content) THEN Lower(content[k]) ELSE ""
        rest(k) == w(k) = "previous" /\ w(k + 1) \in {"instruction", "instructions"}
    IN /\ w(i) = "ignore"
       /\ \/ rest(i + 1)
          \/ w(i + 1) = "all" /\ rest(i + 2)

DetectInjection(content) ==
    \E i \in 1..Len(content) :
        \/ IgnorePrevious(content, i)
        \/ Lower(content[i]) \in {"system:"}                       \* (?i)system:\s*
        \/ Lower(content[i]) \in {"jailbreak", "jailbreaking"}     \* (?i)jailbreak

Benign == <<"hello">>
Override == <<"Ignore", "all", "previous", "instructions">>
Contents ==
    {Benign, Override, <<"ignore", "previous", "instruction">>, <<"SYSTEM:", "hello">>,
     <<"Jailbreaking">>, <<"ignore", "all", "instructions">>, <<"system">>}

NewBus == [rows |-> <<>>, lock |-> Null]

\* a connection that any caller may use at any time
LockNeverHeld == TRUE

\* the parking_lot Mutex around the connection
LockFree == bus.lock = Null

Row(id, recipient, content, priority, now) ==
    [id |-> id, recipient |-> recipient, content |-> content,
     priority |-> UnwrapOr(priority, 1),
     payload |-> DetectInjection(content),
     created_at |-> now, processed_at |-> Null]

\* a SELECT that passes over the flagged rows
UnprocessedUnflagged(rows, agent_id) ==
    {i \in 1..Len(rows) : /\ rows[i].recipient = agent_id
                          /\ rows[i].processed_at = Null
                          /\ ~rows[i].payload}

\* WHERE recipient = ?1 AND processed_at IS NULL
Unprocessed(rows, agent_id) ==
    {i \in 1..Len(rows) : rows[i].recipient = agent_id /\ rows[i].processed_at = Null}

\* ORDER BY with created_at descending
OrderedBeforeNewestFirst(a, b) ==
    \/ a.priority > b.priority
    \/ a.priority = b.priority /\ a.created_at > b.created_at

\* ORDER BY priority DESC, created_at ASC
OrderedBefore(a, b) ==
    \/ a.priority > b.priority
    \/ a.priority = b.priority /\ a.created_at < b.created_at

\* LIMIT 1: a row that no other candidate is ordered before
SelectNext(rows, agent_id) ==
    {i \in Unprocessed(rows, agent_id) :
        \A j \in Unprocessed(rows, agent_id) : ~OrderedBefore(rows[j], rows[i])}

\* UPDATE messages SET processed_at = ?1 WHERE id = ?2
MarkProcessed(rows, id, now) ==
    [i \in 1..Len(rows) |->
        IF rows[i].id = id THEN [rows[i] EXCEPT !.processed_at = Some(now)] ELSE rows[i]]

(***************************************************************************)
(* The vector memory (vector.rs).  A MemoryEntry keeps text and vector;    *)
(* the other fields are stored as passed.  The text of a stored entry is   *)
(* the number of its store call, the entries of the file carry negative    *)
(* numbers.  A tag string is the sequence of its comma-separated pieces,   *)
(* each a sequence of characters; the empty string is one empty piece.     *)
(* A matrix row is kept as the padded vector with its squared norm: the    *)
(* row v / sqrt(norm2), or v itself when norm2 = 0.                        *)
(***************************************************************************)
MAX_MEMORY_ENTRIES == 2    \* the capacity; 10_000 in vector.rs, scaled down
MAX_TAGS == 20
MAX_TAG_LENGTH == 50
MaxStores == 3             \* store calls in one run
EmbeddingDims == 0..2      \* lengths of the vectors the embedder returns

Ok(v) == [ok |-> TRUE, v |-> v]
Err(e) == [ok |-> FALSE, v |-> e]
\* Err(InvalidTag(..)): the message names the tags that were refused
InvalidTag(tags) == [ok |-> FALSE, v |-> "InvalidTag", tags |-> tags]

TagChars == {"a", "_", "7"}       \* characters of [a-zA-Z0-9_\-]
EmptyString == << <<>> >>

RECURSIVE TrimStart(_)
TrimStart(piece) ==
    IF piece # <<>> /\ Head(piece) = " " THEN TrimStart(Tail(piece)) ELSE piece

RECURSIVE TrimEnd(_)
TrimEnd(piece) ==
    IF piece # <<>> /\ piece[Len(piece)] = " "
    THEN TrimEnd(SubSeq(piece, 1, Len(piece) - 1))
    ELSE piece

Trim(piece) == TrimEnd(TrimStart(piece))

\* TAG_REGEX.is_match
TagRegexMatches(tag) == tag # <<>> /\ \A k \in 1..Len(tag) : tag[k] \in TagChars

\* a validation that lets every tag string through
validate_tags_accept_all(tags) == TRUE

\* TRUE for Ok(()), FALSE for Err(InvalidTag)
validate_tags(tags) ==
    \/ tags = EmptyString
    \/ /\ Len(tags) <= MAX_TAGS
       /\ \A i \in 1..Len(tags) :
              ~(Len(Trim(tags[i])) > MAX_TAG_LENGTH \/ ~TagRegexMatches(Trim(tags[i])))

Repeat(x, n) == [i \in 1..n |-> x]

ValidTagSamples ==
    {EmptyString, <<<<"a">>>>, <<<<" ", "a", "_", " ">>, <<"7">>>>,
     Repeat(<<"a">>, MAX_TAGS), <<Repeat("a", MAX_TAG_LENGTH)>>}
InvalidTagSamples ==
    {Repeat(<<"a">>, MAX_TAGS + 1), <<Repeat("a", MAX_TAG_LENGTH + 1)>>,
     <<<<"a", "!">>>>, <<<<"a">>, <<>>>>, <<<<"a", " ", "a">>>>, <<<<" ">>>>}
TagSamples == ValidTagSamples \cup InvalidTagSamples

\* a MemoryEntry with its validity window; 0 for a bound that was not passed
WindowEntry(text, vector, valid_from, valid_to) ==
    [text |-> text, vector |-> vector, valid_from |-> valid_from, valid_to |-> valid_to]
Entry(text, vector) == WindowEntry(text, vector, 0, 0)
Texts(entries) == [i \in 1..Len(entries) |-> entries[i].text]

\* A line of the persistence file: an entry, or a blank or unparsable line.
Line(entry) == [parsed |-> Some(entry)]
Skipped == [parsed |-> Null]
Lines(entries) == [i \in 1..Len(entries) |-> Line(entries[i])]

\* Null is a path that does not exist.
load_from_disk(file) ==
    IF file = Null
    THEN <<>>
    ELSE LET kept == SelectSeq(file[1], LAMBDA line : line.parsed # Null)
         IN [i \in 1..Len(kept) |-> kept[i].parsed[1]]

SaveOutcomes == {"ok", "open_failed", "write_failed"}

\* What the file holds after save_to_disk: all lines, the file as it was when
\* it cannot be opened, or the lines written before the failing one.
save_to_disk(file, entries, outcome) ==
    CASE outcome = "ok" -> {Some(Lines(entries))}
      [] outcome = "open_failed" -> {file}
      [] outcome = "write_failed" ->
             {Some(Lines(SubSeq(entries, 1, k))) : k \in 0..(Len(entries) - 1)}

RECURSIVE SumSq(_)
SumSq(v) == IF v = <<>> THEN 0 ELSE Head(v) * Head(v) + SumSq(Tail(v))

Pad(v, dim) == [j \in 1..dim |-> IF j <= Len(v) THEN v[j] ELSE 0]
NormalizeRow(v) == [v |-> v, norm2 |-> SumSq(v)]

\* matrix[[i, j]] = val with j beyond the columns: index out of bounds
BuildPanics(entries) ==
    /\ entries # <<>>
    /\ Len(entries[1].vector) # 0
    /\ \E i \in 1..Len(entries) : Len(entries[i].vector) > Len(entries[1].vector)

build_vector_matrix(entries) ==
    IF entries = <<>>
    THEN Null
    ELSE LET dim == Len(entries[1].vector)
         IN IF dim = 0
            THEN Null
            ELSE Some([i \in 1..Len(entries) |-> NormalizeRow(Pad(entries[i].vector, dim))])

RECURSIVE EvictOldest(_)
EvictOldest(entries) ==
    IF Len(entries) >= MAX_MEMORY_ENTRIES THEN EvictOldest(Tail(entries)) ELSE entries

NewVM(file) ==
    [entries |-> load_from_disk(file),
     vectors |-> build_vector_matrix(load_from_disk(file)),
     embedder |-> Null, file |-> file, async_lock |-> Null, inner |-> Null]

\* a store that would not wait for the tokio mutex
AsyncLockNeverHeld == TRUE

\* the tokio Mutex async_lock
AsyncLockFree == vm.async_lock = Null

\* the RwLock inner: Null, or the caller whose guard is alive between steps
InnerLockFree == vm.inner = Null

\* a store that keeps the read guard of its settings while it embeds
ReadGuardHeld(p) == Some(p)

\* store, lines 223-227: the read guard lives in the block of the settings
ReadGuardDropped(p) == Null

\* a store that hands the error of save_to_disk to its caller
StoreResultOrSaveError(index, saved) == IF saved = "ok" THEN Ok(index) ELSE Err("IoError")

\* let _ = save_to_disk(..); Ok(index)
StoreResult(index, saved) == Ok(index)

(***************************************************************************)
(* Search.  A similarity is kept as the dot product of the padded entry    *)
(* vector with the query and the product of the two squared norms (1 for a *)
(* norm of 0, which is left as it is): the value dot / sqrt(n2).           *)
(***************************************************************************)
MaxTopK == 2               \* the largest top_k passed by the model
DefaultTopK == 5
MaxNow == 3                \* the clock readings of a search
QueryVectors == {<<1, 0>>, <<0, 1>>, <<1, 1>>, <<1>>, <<0, 0>>}
TemporalFilters == {Null, Some("current"), Some("historical"), Some("all")}

RECURSIVE Dot(_, _)
Dot(u, v) == IF u = <<>> THEN 0 ELSE Head(u) * Head(v) + Dot(Tail(u), Tail(v))

NonZero(norm2) == IF norm2 > 0 THEN norm2 ELSE 1
Score(row, query) ==
    [dot |-> Dot(row.v, query), n2 |-> NonZero(row.norm2) * NonZero(SumSq(query))]

\* vectors.dot(&query_norm): ndarray panics on shapes that do not agree
DotPanics(vectors, query) == Len(vectors[1].v) # Len(query)

cosine_similarity(vectors, query) ==
    [i \in 1..Len(vectors) |-> Score(vectors[i], query)]

\* the sign-carrying square of dot / sqrt(n2), cross-multiplied
Signed(x) == IF x < 0 THEN 0 - x * x ELSE x * x
Higher(s, t) == Signed(s.dot) * t.n2 > Signed(t.dot) * s.n2
SameScore(s, t) == ~Higher(s, t) /\ ~Higher(t, s)

\* sort_by(|a, b| b.1.partial_cmp(&a.1)): a stable sort, best first
InsertByScore(sorted, x) ==
    LET n == Cardinality({k \in 1..Len(sorted) :
                              \A j \in 1..k : ~Higher(x.s, sorted[j].s)})
    IN SubSeq(sorted, 1, n) \o <<x>> \o SubSeq(sorted, n + 1, Len(sorted))

RECURSIVE SortByScoreLoop(_, _, _)
SortByScoreLoop(scored, k, sorted) ==
    IF k > Len(scored) THEN sorted
    ELSE SortByScoreLoop(scored, k + 1, InsertByScore(sorted, scored[k]))

SortByScore(scored) == SortByScoreLoop(scored, 1, <<>>)

\* the closure of the temporal filter, lines 271-275
Keeps(filter, e, now) ==
    CASE filter = "current" ->
             /\ (e.valid_from = 0 \/ e.valid_from <= now)
             /\ (e.valid_to = 0 \/ e.valid_to >= now)
      [] filter = "historical" -> e.valid_to > 0 /\ e.valid_to < now
      [] OTHER -> TRUE

Take(seq, n) == SubSeq(seq, 1, IF n < Len(seq) THEN n ELSE Len(seq))

\* a search that cuts the list to top_k before it filters
TruncateThenFilter(scored, entries, temporal_filter, now, top_k) ==
    IF temporal_filter # Null
    THEN SelectSeq(Take(scored, top_k),
                   LAMBDA x : Keeps(temporal_filter[1], entries[x.i + 1], now))
    ELSE Take(scored, top_k)

\* search, lines 268-278: filter, then take(top_k)
FilterThenTruncate(scored, entries, temporal_filter, now, top_k) ==
    Take(IF temporal_filter # Null
         THEN SelectSeq(scored,
                        LAMBDA x : Keeps(temporal_filter[1], entries[x.i + 1], now))
         ELSE scored,
         top_k)

\* entries[*i] and entries[i] of the closures: an index beyond the list
IndexPanics(picked, entries) == \E k \in 1..Len(picked) : picked[k].i >= Len(entries)

\* search, lines 264-287, on the cloned entries and matrix
SearchResults(entries, vectors, query, temporal_filter, now, top_k) ==
    LET similarities == cosine_similarity(vectors, query)
        scored == SortByScore([k \in 1..Len(similarities) |->
                                   [i |-> k - 1, s |-> similarities[k]]])
        looked == IF temporal_filter # Null THEN scored ELSE Take(scored, top_k)
    IN IF DotPanics(vectors, query)
       THEN Err("panic")
       ELSE IF IndexPanics(looked, entries)
       THEN Err("index out of bounds")
       ELSE LET picked == FilterThenTruncate(scored, entries, temporal_filter, now, top_k)
            IN Ok([k \in 1..Len(picked) |->
                      [text |-> entries[picked[k].i + 1].text, score |-> picked[k].s]])

(***************************************************************************)
(* The inference router (router.rs).  A Backend is kept by its name: the   *)
(* base url and the api key are stored as passed and only copied into the  *)
(* request.  A model key is the alias a caller passes.                     *)
(***************************************************************************)
BackendNames == {"b1", "b2"}
MappedAlias == "fast"                 \* the alias add_model_mapping maps
ModelKeys == {MappedAlias, "raw"}     \* what a caller passes as model key
ModelIds == {"m7"}                    \* backend-local model ids
RouterOps == {"call_llm", "embed"}
Statuses == {200, 404, 500}           \* HTTP statuses of a response

\* StatusCode::is_success
IsSuccess(status) == 200 <= status /\ status <= 299

ApiError(status) == [ok |-> FALSE, v |-> "ApiError", status |-> status]
BackendNotFound(name) == [ok |-> FALSE, v |-> "BackendNotFound", name |-> name]

\* Router::new
NewRouter == [backends |-> {}, model_map |-> EmptyMap, lock |-> Null]

RouterLockFree == router.lock = Null

\* the guard still alive while the request is sent
HeldBy(p) == Some(p)

\* drop(inner), before req.send().await
Released(p) == Null

\* call_llm lines 80-82, embed lines 109-111: the (backend name, model id)
\* pairs the lookup may give; keys().next() is any key of the HashMap, and
\* unwrap_or_default gives the empty backend name when there is none
Resolve(inner, key) ==
    IF key \in DOMAIN inner.model_map
    THEN {inner.model_map[key]}
    ELSE IF inner.backends = {}
         THEN {<<"", key>>}
         ELSE {<<b, key>> : b \in inner.backends}

(***************************************************************************)
(* The backend adapters (adapters/openai.rs, llamacpp.rs, ollama.rs).  A   *)
(* response is its status and its body; a body is what its JSON parses to, *)
(* or nothing when it does not parse.  The embedding of the i-th input     *)
(* text is a vector that tells i.                                          *)
(***************************************************************************)
Adapters == {"openai", "llamacpp", "ollama"}
AdapterOps == {"discover_models", "call_llm", "embed", "load_model", "unload_model"}
MaxTexts == 3        \* input texts of one embed call

ApiErrorMessage(message) == [ok |-> FALSE, v |-> "ApiError", message |-> message]

TextEmbedding(i) == <<i + 10>>
EmbeddingData(index) == [index |-> index, embedding |-> TextEmbedding(index)]

\* the orders in which a server may list the data entries of n input texts
EmbedBodies ==
    UNION {{[k \in 1..n |-> EmbeddingData(perm[k] - 1)] : perm \in Perms(1..n)} :
             n \in 0..MaxTexts}

\* the bodies a server may answer an operation with
Bodies(op) ==
    IF op = "embed" THEN {Some(data) : data \in EmbedBodies} \cup {Null}
    ELSE IF op = "call_llm" THEN {Some(<<"hi">>), Some(<<>>), Null}
    ELSE {Some(<<"m7">>), Null}

\* the response order kept
ServerOrder(data) == data

\* openai.rs embed, line 383: sort_by_key is a stable sort; an entry goes
\* behind the entries whose index is not greater
InsertByIndex(sorted, d) ==
    LET n == Cardinality({k \in 1..Len(sorted) : sorted[k].index <= d.index})
    IN SubSeq(sorted, 1, n) \o <<d>> \o SubSeq(sorted, n + 1, Len(sorted))

RECURSIVE SortLoop(_, _, _)
SortLoop(data, k, sorted) ==
    IF k > Len(data) THEN sorted ELSE SortLoop(data, k + 1, InsertByIndex(sorted, data[k]))

SortByIndex(data) == SortLoop(data, 1, <<>>)

EmbeddingsOf(data) == [k \in 1..Len(data) |-> data[k].embedding]

\* load_model of openai.rs (388-395) and llamacpp.rs (286-293) and every
\* unload_model return Ok(true) and send nothing
SendsRequest(adapter, op) ==
    /\ op # "unload_model"
    /\ op = "load_model" => adapter = "ollama"

\* what an operation returns for the response it received
AdapterResult(adapter, op, status, body) ==
    IF op = "load_model" THEN Ok(IsSuccess(status))
    ELSE IF ~IsSuccess(status) THEN ApiError(status)
    ELSE IF op = "embed" /\ adapter = "ollama" /\ body = Null
         THEN ApiErrorMessage("Failed to parse embedding response")
    ELSE IF body = Null THEN Err("JsonError")
    ELSE IF op = "embed"
         THEN Ok(EmbeddingsOf(IF adapter = "openai" THEN SortByIndex(body[1])
                                                     ELSE ServerOrder(body[1])))
    ELSE IF op = "call_llm" /\ adapter # "ollama" /\ body[1] = <<>>
         THEN ApiErrorMessage("No choices in response")
    ELSE Ok(body[1])

(***************************************************************************)
(* call_llm_stream.  A string is the sequence of its characters.  The body *)
(* of a streamed response is a sequence of pieces: the text of a line, or  *)
(* the newline that ends it; the network cuts the body into chunks at any  *)
(* piece.  The text of a line is kept by what it parses to: kind "data" is *)
(* an SSE `data: <chunk>` line or an NDJSON object, with the content of    *)
(* its delta / message (none when the field is absent) and its done flag;  *)
(* kind "marker" is the line `data: [DONE]`.  A blank line is a newline    *)
(* alone.                                                                  *)
(***************************************************************************)
MaxLines == 3            \* lines of a streamed body
ChannelCapacity == 1     \* the buffer of the mpsc channel the caller made

NL == [kind |-> "nl", content |-> Null, done |-> FALSE]
Data(content, done) == [kind |-> "data", content |-> content, done |-> done]
Marker == [kind |-> "marker", content |-> Null, done |-> FALSE]

StreamTexts == {<<"a">>, <<"b">>, <<>>}

\* the lines an SSE server and an NDJSON server may send
SseLines == {<<Data(Some(t), FALSE), NL>> : t \in StreamTexts} \cup {<<Marker, NL>>, <<NL>>}
NdjsonLines ==
    {<<Data(Some(t), FALSE), NL>> : t \in StreamTexts}
        \cup {<<Data(Some(<<>>), TRUE), NL>>, <<Data(Some(<<"b">>), TRUE), NL>>, <<NL>>}

RECURSIVE Flatten(_)
Flatten(lines) == IF lines = <<>> THEN <<>> ELSE Head(lines) \o Flatten(Tail(lines))

StreamBodies(adapter) ==
    {Flatten(lines) :
       lines \in SeqsUpTo(IF adapter = "ollama" THEN NdjsonLines ELSE SseLines, MaxLines)}

\* A data line whose content is one two-byte character, as the two pieces a
\* chunk boundary inside the character leaves: the bytes up to the first
\* byte of the character, and its second byte with the rest of the line.
Lead == [kind |-> "lead", content |-> Null, done |-> FALSE]
Cont == [kind |-> "cont", content |-> Null, done |-> FALSE]
\* the same pieces with the lone byte decoded as U+FFFD
LeadLost == [kind |-> "lead_lost", content |-> Null, done |-> FALSE]
ContLost == [kind |-> "cont_lost", content |-> Null, done |-> FALSE]
TwoByteChar == <<"e'">>
Replaced == <<"U+FFFD", "U+FFFD">>

\* a decoder that waits for the rest of a character
Utf8Streaming(chunk) == chunk

\* String::from_utf8_lossy(&chunk): every chunk is decoded by itself
RECURSIVE from_utf8_lossy(_)
from_utf8_lossy(chunk) ==
    IF chunk = <<>> THEN <<>>
    ELSE IF Head(chunk).kind = "lead"
    THEN IF Len(chunk) >= 2 /\ chunk[2].kind = "cont"
         THEN <<Data(Some(TwoByteChar), FALSE)>> \o from_utf8_lossy(SubSeq(chunk, 3, Len(chunk)))
         ELSE <<LeadLost>> \o from_utf8_lossy(Tail(chunk))
    ELSE IF Head(chunk).kind = "cont"
    THEN <<ContLost>> \o from_utf8_lossy(Tail(chunk))
    ELSE <<Head(chunk)>> \o from_utf8_lossy(Tail(chunk))

\* the text of a line of the buffer: pieces pushed one after the other read
\* as one data line
LineOf(pieces) ==
    IF Len(pieces) = 2 /\ pieces[1].kind = "lead_lost" /\ pieces[2].kind = "cont_lost"
    THEN <<Data(Some(Replaced), FALSE)>>
    ELSE IF Len(pieces) = 2 /\ pieces[1].kind = "lead" /\ pieces[2].kind = "cont"
    THEN <<Data(Some(TwoByteChar), FALSE)>>
    ELSE pieces

\* the bodies with a two-byte character, an ASCII token and the end marker
ByteLines(adapter) ==
    {<<Lead, Cont, NL>>, <<Data(Some(<<"a">>), FALSE), NL>>,
     IF adapter = "ollama" THEN <<Data(Some(<<>>), TRUE), NL>> ELSE <<Marker, NL>>}
ByteBodies == [adapter \in Adapters |-> {Flatten(lines) : lines \in SeqsUpTo(ByteLines(adapter), MaxLines)}]
LineBodies == [adapter \in Adapters |-> StreamBodies(adapter)]

\* buffer.find('\n'): the position of the first newline, 0 when there is none
FindNewline(buffer) ==
    IF \E k \in 1..Len(buffer) : buffer[k].kind = "nl"
    THEN CHOOSE k \in 1..Len(buffer) :
           /\ buffer[k].kind = "nl"
           /\ \A j \in 1..(k - 1) : buffer[j].kind # "nl"
    ELSE 0

\* the token one line makes the adapter push and send, if any.
\* openai.rs 327-341, llamacpp.rs 237-250: a data line that is not [DONE]
\* and parses, with Some(content).  ollama.rs 266-276: a line that parses,
\* with a message whose content is not empty; `data: [DONE]` is no JSON.
LineToken(adapter, line) ==
    IF line = <<>> \/ line[1].kind # "data" \/ line[1].content = Null THEN Null
    ELSE IF adapter = "ollama" /\ line[1].content[1] = <<>> THEN Null
    ELSE line[1].content

\* ollama.rs 278-280: break, out of the loop over the lines of the buffer
LineBreaks(adapter, line) ==
    adapter = "ollama" /\ line # <<>> /\ line[1].kind = "data" /\ line[1].done

\* the terminal marker of the protocol
IsTerminalLine(adapter, line) ==
    /\ line # <<>>
    /\ IF adapter = "ollama" THEN line[1].kind = "data" /\ line[1].done
                             ELSE line[1].kind = "marker"

\* a send error ends the call
PropagateSendResult(sent_ok) == sent_ok

\* let _ = tx.send(content).await
IgnoreSendResult(sent_ok) == TRUE

NoStream ==
    [adapter |-> "none", net |-> <<>>, buffer |-> <<>>, full_content |-> <<>>,
     sent |-> <<>>, queue |-> <<>>, rx_open |-> TRUE, terminal |-> FALSE]

\* tokio's Sender::send resolves when the channel has room or is closed
SendReady == ~stream.rx_open \/ Len(stream.queue) < ChannelCapacity

(***************************************************************************)
(* The episodic memory (episodic.rs).  A row keeps the columns a statement *)
(* of the file reads or writes: id, importance, created_at, superseded_by. *)
(* The instant of the clock is a day; created_at and the cutoff are        *)
(* RFC 3339 strings of UTC instants, which compare as the instants do.     *)
(* importance is a REAL; it is kept in whole units, and a decay by one     *)
(* half rounds down.  min_age_days is a u64 that is cast to i64: the width *)
(* is AgeBits, and the days chrono can subtract from a date are MaxSpan.   *)
(***************************************************************************)
AgeBits == 3         \* width of min_age_days; 64 in episodic.rs, scaled down
MaxSpan == 2         \* |days| Duration::days and DateTime - Duration take
MaxRows == 2         \* store calls in one run
MaxDay == 3          \* days that pass in one run

RECURSIVE Pow2(_)
Pow2(n) == IF n = 0 THEN 1 ELSE 2 * Pow2(n - 1)

AgeArgs == 0..(Pow2(AgeBits) - 1)
MinImportanceArgs == {1, 3}
ImportanceArgs == {Null, Some(2)}
DecayArgs == {"half", "all"}       \* decay_rate 0.5 and 1.0

\* the cast keeps the value
NoCast(days) == days

\* `min_age_days as i64`: the two's complement reading of the bits
AsI64(days) == IF days < Pow2(AgeBits - 1) THEN days ELSE days - Pow2(AgeBits)

\* Duration::days(d) and Utc::now() - duration panic out of their range
DurationPanics(d) == d > MaxSpan \/ d < 0 - MaxSpan

\* importance * (1.0 - decay)
Decayed(importance, decay) == IF decay = "half" THEN importance \div 2 ELSE 0

EpisodicRow(id, importance, created_at, superseded_by) ==
    [id |-> id, importance |-> importance, created_at |-> created_at,
     superseded_by |-> superseded_by]

\* the WHERE clause of evict_low_importance, line 122
EvictWhere(row, min_importance, cutoff) ==
    /\ row.importance < min_importance
    /\ row.created_at < cutoff
    /\ row.superseded_by = Null

Keep(rows, Deleted(_)) == SelectSeq(rows, LAMBDA row : ~Deleted(row))

\* EpisodicMemory::new on a fresh database file
NewEpisodic == [rows |-> <<>>, next_id |-> 1]

\* the tables new may open: none yet, or one in which an entry was marked
\* superseded by its successor
EpisodicTables ==
    {<<>>,
     <<EpisodicRow(0 - 1, 0, 0, Some(0 - 2)), EpisodicRow(0 - 2, 4, 0, Null)>>}

(***************************************************************************)
(* The shared workspace (workspace.rs).  The table is kept in rowid order. *)
(* A row keeps the columns query reads; title is stored and returned as    *)
(* content is.  id and created_at are drawn together before the lock       *)
(* (lines 62-63): the instant stands for the fresh uuid.  The cache is     *)
(* never written.                                                          *)
(***************************************************************************)
MaxAdds == 3         \* add calls in one run
WsMissions == {"m1", "m2"}
WsTypes == {"note", "plan"}
WsContents == {"x"}

WsRow(id, mission_id, agent_id, entry_type, content, created_at) ==
    [id |-> id, mission_id |-> mission_id, agent_id |-> agent_id,
     entry_type |-> entry_type, content |-> content, created_at |-> created_at]

\* the columns of the SELECT, lines 75 and 81-88
Selected(row) ==
    [id |-> row.id, agent_id |-> row.agent_id, entry_type |-> row.entry_type,
     content |-> row.content]

\* the WHERE clause of query, lines 75-77
QueryWhere(row, mission_id, agent_id, entry_type) ==
    /\ row.mission_id = mission_id
    /\ agent_id # Null => row.agent_id = agent_id[1]
    /\ entry_type # Null => row.entry_type = entry_type[1]

\* the rows as the table scan gives them
RowidOrder(rows) == rows

\* ORDER BY created_at ASC, line 78
InsertByCreatedAt(sorted, row) ==
    LET n == Cardinality({k \in 1..Len(sorted) : sorted[k].created_at <= row.created_at})
    IN SubSeq(sorted, 1, n) \o <<row>> \o SubSeq(sorted, n + 1, Len(sorted))

RECURSIVE OrderLoop(_, _, _)
OrderLoop(rows, k, sorted) ==
    IF k > Len(rows) THEN sorted
    ELSE OrderLoop(rows, k + 1, InsertByCreatedAt(sorted, rows[k]))

OrderByCreatedAt(rows) == OrderLoop(rows, 1, <<>>)

\* SharedWorkspace::query, lines 73-119
Query(rows, mission_id, agent_id, entry_type) ==
    LET matching == SelectSeq(rows, LAMBDA row :
                                QueryWhere(row, mission_id, agent_id, entry_type))
        ordered == OrderByCreatedAt(matching)
    IN [k \in 1..Len(ordered) |-> Selected(ordered[k])]

QueryResult(rows, agent_id, entry_type) ==
    [ok |-> TRUE, v |-> rows, agent_id |-> agent_id, entry_type |-> entry_type]

\* SharedWorkspace::new on a fresh database file
NewWorkspace == <<>>

NoHist ==
    [popped |-> <<>>, calls |-> 0, base |-> <<>>, acq |-> <<>>, failed |-> {},
     requests |-> {}, saved |-> "none", response |-> Null, added |-> {}]

Others == UNCHANGED <<router, stream, episodic, workspace>>
OnlyVM == UNCHANGED <<missions, bus, clock>> /\ Others

OnlyScheduler == UNCHANGED <<bus, vm, procs, clock, hist>> /\ Others
OnlyBus == UNCHANGED <<missions, vm>> /\ Others

Ret(op, mid, tid, val) == [op |-> op, mid |-> mid, tid |-> tid, val |-> val]

NewMission(task_map, order) ==
    [status |-> "running", tasks |-> task_map, completed_tasks |-> 0,
     total_tasks |-> Cardinality(DOMAIN task_map),
     levels |-> build_levels(task_map, order), current_level |-> 0,
     completed_at |-> None]

Init ==
    /\ missions = EmptyMap
    /\ ret = Ret("new", NoTask, NoTask, None)
    /\ bus = NewBus
    /\ vm = NewVM(Null)
    /\ procs = IdleProcs
    /\ clock = 1
    /\ hist = NoHist
    /\ router = NewRouter
    /\ stream = NoStream
    /\ episodic = NewEpisodic
    /\ workspace = NewWorkspace

\* Mutation of submit_mission: no contains_key test, the insert replaces.
submit_mission_overwrite(mission_id, lists) ==
    \E tasks \in lists :
      LET task_map == BuildTaskMap(tasks, 1, EmptyMap)
      IN \E order \in Perms(DOMAIN task_map) :
           /\ missions' = MapInsert(missions, mission_id, NewMission(task_map, order))
           /\ ret' = Ret("submit_mission", mission_id, NoTask, "Ok")

(***************************************************************************)
(* Scheduler::submit_mission.  The task list is read only when the id is   *)
(* free, so it is drawn there.                                             *)
(***************************************************************************)
submit_mission(mission_id, lists) ==
    IF mission_id \in DOMAIN missions
    THEN /\ ret' = Ret("submit_mission", mission_id, NoTask, "MissionAlreadyExists")
         /\ UNCHANGED missions
    ELSE \E tasks \in lists :
           LET task_map == BuildTaskMap(tasks, 1, EmptyMap)
           IN \E order \in Perms(DOMAIN task_map) :
                /\ missions' = MapInsert(missions, mission_id, NewMission(task_map, order))
                /\ ret' = Ret("submit_mission", mission_id, NoTask, "Ok")

\* Mutation of LevelComplete: `any` in place of `all`.
LevelCompleteAny(m) ==
    \E tid \in Range(m.levels[m.current_level + 1]) :
        tid \in DOMAIN m.tasks => m.tasks[tid].status \in {"completed", "failed"}

\* The wave at current_level is terminal (a wave id missing from the map counts).
LevelComplete(m) ==
    \A tid \in Range(m.levels[m.current_level + 1]) :
        tid \in DOMAIN m.tasks => m.tasks[tid].status \in {"completed", "failed"}

SetStatus(tasks, task_id, status) ==
    IF task_id \in DOMAIN tasks THEN [tasks EXCEPT ![task_id].status = status] ELSE tasks

\* Mutation of CompleteTaskIn: the wave is tested before the task is marked.
CompleteTaskInStaleCheck(m, task_id, now) ==
    LET m1 == [m EXCEPT !.tasks = SetStatus(m.tasks, task_id, "completed"),
                        !.completed_tasks = m.completed_tasks + 1]
    IN IF m.current_level < Len(m.levels) /\ LevelComplete(m)
       THEN LET m2 == [m1 EXCEPT !.current_level = m1.current_level + 1]
            IN IF m2.current_level >= Len(m2.levels)
               THEN [m2 EXCEPT !.status = "completed", !.completed_at = now]
               ELSE m2
       ELSE m1

\* Mutation of CompleteTaskIn: `>` in place of `>=` at the last wave.
CompleteTaskInOffByOne(m, task_id, now) ==
    LET m1 == [m EXCEPT !.tasks = SetStatus(m.tasks, task_id, "completed"),
                        !.completed_tasks = m.completed_tasks + 1]
    IN IF m1.current_level < Len(m1.levels) /\ LevelComplete(m1)
       THEN LET m2 == [m1 EXCEPT !.current_level = m1.current_level + 1]
            IN IF m2.current_level > Len(m2.levels)
               THEN [m2 EXCEPT !.status = "completed", !.completed_at = now]
               ELSE m2
       ELSE m1

\* The body of complete_task on the locked mission m; now is Utc::now().
CompleteTaskIn(m, task_id, now) ==
    LET m1 == [m EXCEPT !.tasks = SetStatus(m.tasks, task_id, "completed"),
                        !.completed_tasks = m.completed_tasks + 1]
    IN IF m1.current_level < Len(m1.levels) /\ LevelComplete(m1)
       THEN LET m2 == [m1 EXCEPT !.current_level = m1.current_level + 1]
            IN IF m2.current_level >= Len(m2.levels)
               THEN [m2 EXCEPT !.status = "completed", !.completed_at = now]
               ELSE m2
       ELSE m1

complete_task(mission_id, task_id) ==
    IF mission_id \in DOMAIN missions
    THEN /\ missions[mission_id].completed_tasks < MaxCompleted
         /\ \E now \in Times :
              missions' = [missions EXCEPT ![mission_id] = CompleteTaskIn(@, task_id, now)]
         /\ ret' = Ret("complete_task", mission_id, task_id, TRUE)
    ELSE /\ ret' = Ret("complete_task", mission_id, task_id, FALSE)
         /\ UNCHANGED missions

FailTaskIn(m, task_id, now) ==
    [m EXCEPT !.tasks = SetStatus(m.tasks, task_id, "failed"),
              !.status = "failed", !.completed_at = now]

fail_task(mission_id, task_id) ==
    IF mission_id \in DOMAIN missions
    THEN /\ \E now \in Times :
              missions' = [missions EXCEPT ![mission_id] = FailTaskIn(@, task_id, now)]
         /\ ret' = Ret("fail_task", mission_id, task_id, TRUE)
    ELSE /\ ret' = Ret("fail_task", mission_id, task_id, FALSE)
         /\ UNCHANGED missions

\* The ids of the maps get_ready_tasks returns, in the order of the wave.
\* a ready query that offers the pending tasks of every wave
ReadyTasksOfAllWaves(m) ==
    SelectSeq(Flatten(m.levels),
              LAMBDA tid : tid \in DOMAIN m.tasks /\ m.tasks[tid].status = "pending")

ReadyTasks(m) ==
    IF m.current_level < Len(m.levels)
    THEN SelectSeq(m.levels[m.current_level + 1],
                   LAMBDA tid : tid \in DOMAIN m.tasks /\ m.tasks[tid].status = "pending")
    ELSE <<>>

GetReadyTasks(mission_id) ==
    IF mission_id \in DOMAIN missions THEN ReadyTasks(missions[mission_id]) ELSE <<>>

get_ready_tasks(mission_id) ==
    /\ ret' = Ret("get_ready_tasks", mission_id, NoTask, GetReadyTasks(mission_id))
    /\ UNCHANGED missions

CanStart(mission_id, task_id) ==
    /\ mission_id \in DOMAIN missions
    /\ task_id \in DOMAIN missions[mission_id].tasks
    /\ missions[mission_id].tasks[task_id].status = "pending"

start_task(mission_id, task_id) ==
    IF CanStart(mission_id, task_id)
    THEN /\ missions' = [missions EXCEPT ![mission_id].tasks[task_id].status = "running"]
         /\ ret' = Ret("start_task", mission_id, task_id, TRUE)
    ELSE /\ ret' = Ret("start_task", mission_id, task_id, FALSE)
         /\ UNCHANGED missions

\* cancel_mission without the test of the mission's status
CanCancelAnyStatus(mission_id) == mission_id \in DOMAIN missions

CanCancel(mission_id) ==
    /\ mission_id \in DOMAIN missions
    /\ missions[mission_id].status = "running"

cancel_mission(mission_id) ==
    IF CanCancel(mission_id)
    THEN /\ \E now \in Times :
              missions' = [missions EXCEPT ![mission_id].status = "failed",
                                           ![mission_id].completed_at = now]
         /\ ret' = Ret("cancel_mission", mission_id, NoTask, TRUE)
    ELSE /\ ret' = Ret("cancel_mission", mission_id, NoTask, FALSE)
         /\ UNCHANGED missions

IsTerminal(m) == m.status = "completed" \/ m.status = "failed"

clear_completed ==
    LET to_remove == {id \in DOMAIN missions : IsTerminal(missions[id])}
    IN /\ missions' = MapRemove(missions, to_remove)
       /\ ret' = Ret("clear_completed", NoTask, NoTask, Cardinality(to_remove))

\* A(-), B(A), C(A), D(B,C)
Diamond ==
    << [id |-> "A", depends_on |-> {}], [id |-> "B", depends_on |-> {"A"}],
       [id |-> "C", depends_on |-> {"A"}], [id |-> "D", depends_on |-> {"B", "C"}] >>

SpecLists == TaskLists(TaskIds, DepPieces, MaxTasks, MaxDeps) \cup {Diamond}

Next ==
    \/ \E mid \in MissionIds : submit_mission(mid, SpecLists) /\ OnlyScheduler
    \/ \E mid \in MissionIds, tid \in CallIds : start_task(mid, tid) /\ OnlyScheduler
    \/ \E mid \in MissionIds, tid \in CallIds : complete_task(mid, tid) /\ OnlyScheduler
    \/ \E mid \in MissionIds, tid \in CallIds : fail_task(mid, tid) /\ OnlyScheduler
    \/ \E mid \in MissionIds : get_ready_tasks(mid) /\ OnlyScheduler
    \/ \E mid \in MissionIds : cancel_mission(mid) /\ OnlyScheduler
    \/ clear_completed /\ OnlyScheduler

Spec == Init /\ [][Next]_vars

(***************************************************************************)
(* Submission alone, over richer dependency graphs: three task ids, a      *)
(* descriptor may lack its id, and the diamond.                            *)
(* cancel_mission and clear_completed free the mission id again.           *)
(***************************************************************************)
SubmitIds == {"a", "b", "c"}
SubmitLists ==
    TaskLists(SubmitIds \cup {NoId}, SubmitIds \cup {GhostId}, Cardinality(SubmitIds), MaxDeps)
        \cup {Diamond}

NextSubmit ==
    \/ \E mid \in MissionIds : submit_mission(mid, SubmitLists) /\ OnlyScheduler
    \/ \E mid \in MissionIds : cancel_mission(mid) /\ OnlyScheduler
    \/ clear_completed /\ OnlyScheduler

SpecSubmit == Init /\ [][NextSubmit]_vars

(***************************************************************************)
(* Two missions in the map, over one task id.                              *)
(***************************************************************************)
MapMissionIds == {"m1", "m2"}
MapLists == TaskLists({"a"}, {"a", GhostId}, 1, 1)

NextMap ==
    \/ \E mid \in MapMissionIds : submit_mission(mid, MapLists) /\ OnlyScheduler
    \/ \E mid \in MapMissionIds, tid \in {"a", GhostId} : start_task(mid, tid) /\ OnlyScheduler
    \/ \E mid \in MapMissionIds, tid \in {"a", GhostId} : complete_task(mid, tid) /\ OnlyScheduler
    \/ \E mid \in MapMissionIds, tid \in {"a", GhostId} : fail_task(mid, tid) /\ OnlyScheduler
    \/ \E mid \in MapMissionIds : cancel_mission(mid) /\ OnlyScheduler
    \/ clear_completed /\ OnlyScheduler

SpecMap == Init /\ [][NextMap]_vars

(***************************************************************************)
(* The cooperative host: it asks for the ready tasks, starts every task    *)
(* returned and completes every task it started; it never fails a task and *)
(* never cancels.                                                          *)
(***************************************************************************)
HostStart(mid, tid) ==
    /\ tid \in Range(GetReadyTasks(mid))
    /\ start_task(mid, tid)

HostComplete(mid, tid) ==
    /\ mid \in DOMAIN missions
    /\ tid \in DOMAIN missions[mid].tasks
    /\ missions[mid].tasks[tid].status = "running"
    /\ complete_task(mid, tid)

HostStep ==
    \/ \E mid \in MissionIds, tid \in CallIds : HostStart(mid, tid)
    \/ \E mid \in MissionIds, tid \in CallIds : HostComplete(mid, tid)

NextHost ==
    \/ \E mid \in MissionIds : submit_mission(mid, SpecLists) /\ OnlyScheduler
    \/ \E mid \in MissionIds : get_ready_tasks(mid) /\ OnlyScheduler
    \/ HostStep /\ OnlyScheduler

SpecHost == Init /\ [][NextHost]_vars /\ WF_vars(HostStep /\ OnlyScheduler)

(***************************************************************************)
(* The message bus: send and pop_next of several callers on one bus.       *)
(***************************************************************************)
\* send, lines 76-80: id, timestamp, priority and payload, before the lock
send_begin(p, recipient, content, priority) ==
    /\ procs[p].pc = "idle"
    /\ procs' = [procs EXCEPT ![p] =
                    [pc |-> "send_insert",
                     row |-> Row(clock, recipient, content, priority, clock)]]
    /\ clock' = clock + 1
    /\ UNCHANGED <<bus, ret, hist>>

\* send, lines 81-86: the INSERT under the lock, and the id returned
send_insert(p) ==
    /\ procs[p].pc = "send_insert"
    /\ LockFree
    /\ bus' = [bus EXCEPT !.rows = Append(bus.rows, procs[p].row)]
    /\ ret' = Ret("send", procs[p].row.recipient, p, procs[p].row.id)
    /\ procs' = [procs EXCEPT ![p] = Idle]
    /\ UNCHANGED <<clock, hist>>

\* pop_next, lines 90-91: the lock is taken and the timestamp read
pop_lock(p, agent_id) ==
    /\ procs[p].pc = "idle"
    /\ LockFree
    /\ bus' = [bus EXCEPT !.lock = Some(p)]
    /\ procs' = [procs EXCEPT ![p] = [pc |-> "pop_select", agent_id |-> agent_id, now |-> clock]]
    /\ clock' = clock + 1
    /\ UNCHANGED <<ret, hist>>

\* pop_next, lines 92-96 and 104: the SELECT; without a row None is returned
pop_select(p) ==
    /\ procs[p].pc = "pop_select"
    /\ LET found == SelectNext(bus.rows, procs[p].agent_id)
       IN IF found = {}
          THEN /\ ret' = Ret("pop_next", procs[p].agent_id, p, Null)
               /\ bus' = [bus EXCEPT !.lock = Null]
               /\ procs' = [procs EXCEPT ![p] = Idle]
          ELSE /\ \E i \in found :
                     procs' = [procs EXCEPT ![p] =
                                  [pc |-> "pop_mark", agent_id |-> procs[p].agent_id,
                                   now |-> procs[p].now,
                                   msg |-> [id |-> bus.rows[i].id,
                                            content |-> bus.rows[i].content]]]
               /\ UNCHANGED <<bus, ret>>
    /\ UNCHANGED <<clock, hist>>

\* pop_next, lines 98-103: the UPDATE, and the message returned
pop_mark(p) ==
    /\ procs[p].pc = "pop_mark"
    /\ bus' = [rows |-> MarkProcessed(bus.rows, procs[p].msg.id, procs[p].now),
               lock |-> Null]
    /\ ret' = Ret("pop_next", procs[p].agent_id, p, Some(procs[p].msg))
    /\ hist' = [hist EXCEPT !.popped = Append(hist.popped, procs[p].msg.id)]
    /\ procs' = [procs EXCEPT ![p] = Idle]
    /\ UNCHANGED clock

\* MessageBus::clear, lines 126-131
bus_clear(p) ==
    /\ procs[p].pc = "idle"
    /\ LockFree
    /\ bus.rows # <<>>
    /\ bus' = [bus EXCEPT !.rows = <<>>]
    /\ ret' = Ret("bus_clear", NoTask, p, None)
    /\ UNCHANGED <<procs, clock, hist>>

\* The bounds of a run: clock reads, and rows stored or on their way.
CanRead(max_clock) == clock <= max_clock
HasRoom(max_msgs) ==
    Len(bus.rows) + Cardinality({q \in Procs : procs[q].pc = "send_insert"}) < max_msgs

(***************************************************************************)
(* Two callers on one bus, each sending and popping.                       *)
(***************************************************************************)
NextBus ==
    \/ \E p \in Procs, recipient \in Agents, priority \in PriorityArgs :
           /\ CanRead(MaxRaceClock) /\ HasRoom(MaxRaceMsgs)
           /\ send_begin(p, recipient, Benign, priority) /\ OnlyBus
    \/ \E p \in Procs : send_insert(p) /\ OnlyBus
    \/ \E p \in Procs, agent_id \in Agents :
           CanRead(MaxRaceClock) /\ pop_lock(p, agent_id) /\ OnlyBus
    \/ \E p \in Procs : pop_select(p) /\ OnlyBus
    \/ \E p \in Procs : pop_mark(p) /\ OnlyBus
    \/ \E p \in Procs : bus_clear(p) /\ OnlyBus

SpecBus == Init /\ [][NextBus]_vars

(***************************************************************************)
(* One caller and the inboxes of two agents.                               *)
(***************************************************************************)
NextInbox ==
    \/ \E recipient \in Agents, priority \in PriorityArgs :
           /\ CanRead(MaxClock) /\ HasRoom(MaxMsgs)
           /\ send_begin("p1", recipient, Benign, priority) /\ OnlyBus
    \/ send_insert("p1") /\ OnlyBus
    \/ \E agent_id \in Agents : CanRead(MaxClock) /\ pop_lock("p1", agent_id) /\ OnlyBus
    \/ pop_select("p1") /\ OnlyBus
    \/ pop_mark("p1") /\ OnlyBus
    \/ bus_clear("p1") /\ OnlyBus

SpecInbox == Init /\ [][NextInbox]_vars

(***************************************************************************)
(* One caller and one inbox, over contents that match a pattern, nearly    *)
(* match one, or do not.                                                   *)
(***************************************************************************)
ScreenContents == {Benign, Override, <<"ignore", "all", "instructions">>}

NextScreen ==
    \/ \E content \in ScreenContents, priority \in PriorityArgs :
           /\ CanRead(MaxClock) /\ HasRoom(MaxMsgs)
           /\ send_begin("p1", "r1", content, priority) /\ OnlyBus
    \/ send_insert("p1") /\ OnlyBus
    \/ CanRead(MaxClock) /\ pop_lock("p1", "r1") /\ OnlyBus
    \/ pop_select("p1") /\ OnlyBus
    \/ pop_mark("p1") /\ OnlyBus

SpecScreen == Init /\ [][NextScreen]_vars

(***************************************************************************)
(* The vector memory: store is split at its await points and at the write  *)
(* lock, which it takes for one block.                                     *)
(***************************************************************************)
\* store, lines 216-217: the tags are validated before the future is built
store_call(p, tags) ==
    /\ procs[p].pc = "idle"
    /\ LET text == hist.calls + 1
       IN IF validate_tags(tags)
          THEN /\ procs' = [procs EXCEPT ![p] =
                               [pc |-> "store_lock", text |-> text, tags |-> tags]]
               /\ UNCHANGED ret
          ELSE /\ ret' = Ret("store", text, p, InvalidTag(tags))
               /\ UNCHANGED procs
    /\ hist' = [hist EXCEPT !.calls = hist.calls + 1]
    /\ UNCHANGED vm

\* store, lines 222-228: the mutex, the embedder settings, the request sent
store_acquire(p) ==
    /\ procs[p].pc = "store_lock"
    /\ AsyncLockFree
    /\ IF vm.embedder = Null
       THEN /\ ret' = Ret("store", procs[p].text, p, Err("EmbedderNotConfigured"))
            /\ procs' = [procs EXCEPT ![p] = Idle]
            /\ hist' = [hist EXCEPT !.acq = Append(hist.acq, procs[p].text),
                                    !.failed = hist.failed \cup {procs[p].text}]
            /\ UNCHANGED vm
       ELSE /\ vm' = [vm EXCEPT !.async_lock = Some(p), !.inner = ReadGuardDropped(p)]
            /\ procs' = [procs EXCEPT ![p] = [pc |-> "store_embed", text |-> procs[p].text]]
            /\ hist' = [hist EXCEPT !.acq = Append(hist.acq, procs[p].text),
                                    !.requests = hist.requests \cup {procs[p].text}]
            /\ UNCHANGED ret

\* the vectors embed_internal may return for a text
Embeddings(text) == {Repeat(text, dim) : dim \in EmbeddingDims}

\* store, line 228: the embedding request returns a vector or an error
store_embedded(p) ==
    /\ procs[p].pc = "store_embed"
    /\ \/ \E vector \in Embeddings(procs[p].text) :
            /\ procs' = [procs EXCEPT ![p] =
                            [pc |-> "store_write", text |-> procs[p].text,
                             vector |-> vector]]
            /\ UNCHANGED <<vm, ret, hist>>
       \/ /\ ret' = Ret("store", procs[p].text, p, Err("EmbeddingFailed"))
          /\ vm' = [vm EXCEPT !.async_lock = Null]
          /\ procs' = [procs EXCEPT ![p] = Idle]
          /\ hist' = [hist EXCEPT !.failed = hist.failed \cup {procs[p].text}]

\* store, lines 236-245: the block under the write lock.  A panic of
\* build_vector_matrix unwinds through both guards after the push.
store_write(p) ==
    /\ procs[p].pc = "store_write"
    /\ InnerLockFree
    /\ LET entries == Append(EvictOldest(vm.entries), Entry(procs[p].text, procs[p].vector))
       IN IF BuildPanics(entries)
          THEN /\ vm' = [vm EXCEPT !.entries = entries, !.async_lock = Null]
               /\ ret' = Ret("store", procs[p].text, p, Err("panic"))
               /\ hist' = [hist EXCEPT !.saved = "none"]
          ELSE \E saved \in SaveOutcomes :
                 \E file \in save_to_disk(vm.file, entries, saved) :
                   /\ vm' = [vm EXCEPT !.entries = entries,
                                       !.vectors = build_vector_matrix(entries),
                                       !.file = file,
                                       !.async_lock = Null]
                   /\ ret' = Ret("store", procs[p].text, p,
                                 StoreResult(Len(entries) - 1, saved))
                   /\ hist' = [hist EXCEPT !.saved = saved]
    /\ procs' = [procs EXCEPT ![p] = Idle]

\* set_embedder, lines 194-198
set_embedder(p) ==
    /\ procs[p].pc = "idle"
    /\ InnerLockFree
    /\ vm' = [vm EXCEPT !.embedder = Some("api")]
    /\ UNCHANGED <<ret, procs, hist>>

\* VectorMemory::clear, lines 293-299
vm_clear(p) ==
    /\ procs[p].pc = "idle"
    /\ InnerLockFree
    /\ \E removed \in BOOLEAN :
         /\ vm' = [vm EXCEPT !.entries = <<>>, !.vectors = Null,
                             !.file = IF removed THEN Null ELSE vm.file]
         /\ removed \/ vm.file # Null
         /\ ret' = Ret("vm_clear", NoTask, p, IF removed THEN Ok(None) ELSE Err("IoError"))
    /\ hist' = [hist EXCEPT
                   !.base = <<>>,
                   !.acq = IF vm.async_lock = Null THEN <<>> ELSE <<hist.acq[Len(hist.acq)]>>]
    /\ UNCHANGED procs

\* VectorMemory::count, line 291
vm_count(p) ==
    /\ procs[p].pc = "idle"
    /\ ret' = Ret("count", NoTask, p, Len(vm.entries))
    /\ UNCHANGED <<vm, procs, hist>>

\* what a returned search was asked and the entries it had cloned
Searched(entries, query, temporal_filter, now, top_k) ==
    [entries |-> entries, query |-> query, temporal_filter |-> temporal_filter,
     now |-> now, top_k |-> top_k]

TopKArgs == {Null} \cup {Some(n) : n \in 0..MaxTopK}

\* search, lines 250-262: the settings, entries and matrix are cloned under
\* the read guard, then the query is sent to the embedder
search_begin(p, top_k, temporal_filter) ==
    /\ procs[p].pc = "idle"
    /\ IF vm.embedder = Null
       THEN /\ ret' = Ret("search", NoTask, p, Err("EmbedderNotConfigured"))
            /\ UNCHANGED procs
       ELSE IF vm.entries = <<>> \/ vm.vectors = Null
            THEN /\ ret' = Ret("search",
                               Searched(vm.entries, <<>>, temporal_filter, clock,
                                        UnwrapOr(top_k, DefaultTopK)),
                               p, Ok(<<>>))
                 /\ UNCHANGED procs
            ELSE /\ procs' = [procs EXCEPT ![p] =
                                 [pc |-> "search_embed",
                                  top_k |-> UnwrapOr(top_k, DefaultTopK),
                                  temporal_filter |-> temporal_filter,
                                  entries |-> vm.entries,
                                  vectors |-> vm.vectors[1]]]
                 /\ UNCHANGED ret
    /\ UNCHANGED <<vm, hist>>

\* search, lines 262-287: the query embedding arrives, or the request fails
search_embedded(p, queries) ==
    /\ procs[p].pc = "search_embed"
    /\ \/ \E query \in queries :
            ret' = Ret("search",
                       Searched(procs[p].entries, query, procs[p].temporal_filter,
                                clock, procs[p].top_k),
                       p,
                       SearchResults(procs[p].entries, procs[p].vectors, query,
                                     procs[p].temporal_filter, clock, procs[p].top_k))
       \/ ret' = Ret("search", NoTask, p, Err("EmbeddingFailed"))
    /\ procs' = [procs EXCEPT ![p] = Idle]
    /\ UNCHANGED <<vm, hist>>

\* time passes between two readings of Utc::now()
vm_tick ==
    /\ clock' = clock + 1
    /\ UNCHANGED <<missions, bus, vm, ret, procs, hist>>
    /\ Others

\* The files a memory may be started on: no file, files of entries, and a
\* file with a blank and an unparsable line.
FileEntry(i) == Entry(0 - i, <<1>>)
MaxFileEntries == MAX_MEMORY_ENTRIES + 1
Files ==
    {Null} \cup {Some(Lines([i \in 1..n |-> FileEntry(i)])) : n \in 0..MaxFileEntries}
           \cup {Some(<<Skipped, Line(FileEntry(1)), Skipped>>)}

\* VectorMemory::new on one of the files, unless build_vector_matrix panics
InitVM ==
    /\ missions = EmptyMap
    /\ ret = Ret("new", NoTask, NoTask, None)
    /\ bus = NewBus
    /\ procs = IdleProcs
    /\ clock = 1
    /\ \E file \in Files :
         /\ ~BuildPanics(load_from_disk(file))
         /\ vm = NewVM(file)
         /\ hist = [NoHist EXCEPT !.base = Texts(load_from_disk(file))]
    /\ router = NewRouter
    /\ stream = NoStream
    /\ episodic = NewEpisodic
    /\ workspace = NewWorkspace

(***************************************************************************)
(* Two callers on one vector memory, with one valid and one invalid tag    *)
(* string.                                                                 *)
(***************************************************************************)
RaceTags == {<<<<"a">>>>, <<<<"a", "!">>>>}

NextVM ==
    \/ \E p \in Procs, tags \in RaceTags :
           hist.calls < MaxStores /\ store_call(p, tags) /\ OnlyVM
    \/ \E p \in Procs : store_acquire(p) /\ OnlyVM
    \/ \E p \in Procs : store_embedded(p) /\ OnlyVM
    \/ \E p \in Procs : store_write(p) /\ OnlyVM
    \/ \E p \in Procs : set_embedder(p) /\ OnlyVM
    \/ \E p \in Procs : vm_clear(p) /\ OnlyVM

SpecVM == InitVM /\ [][NextVM]_vars

(***************************************************************************)
(* One caller, over all the tag strings.                                   *)
(***************************************************************************)
NextStore ==
    \/ \E tags \in TagSamples :
           hist.calls < MaxStores /\ store_call("p1", tags) /\ OnlyVM
    \/ store_acquire("p1") /\ OnlyVM
    \/ store_embedded("p1") /\ OnlyVM
    \/ store_write("p1") /\ OnlyVM
    \/ set_embedder("p1") /\ OnlyVM
    \/ vm_clear("p1") /\ OnlyVM

SpecStore == InitVM /\ [][NextStore]_vars

(***************************************************************************)
(* Two callers that store, while the second also searches, counts and      *)
(* clears.                                                                 *)
(***************************************************************************)
RaceTopK == {Null, Some(1)}
RaceQueries == {<<1, 0>>, <<1>>}

NextRace ==
    \/ \E p \in Procs :
           hist.calls < MaxStores /\ store_call(p, <<<<"a">>>>) /\ OnlyVM
    \/ \E p \in Procs : store_acquire(p) /\ OnlyVM
    \/ \E p \in Procs : store_embedded(p) /\ OnlyVM
    \/ \E p \in Procs : store_write(p) /\ OnlyVM
    \/ set_embedder("p1") /\ OnlyVM
    \/ vm_clear("p2") /\ OnlyVM
    \/ vm_count("p2") /\ OnlyVM
    \/ \E top_k \in RaceTopK : search_begin("p2", top_k, Null) /\ OnlyVM
    \/ search_embedded("p2", RaceQueries) /\ OnlyVM

SpecRace == Init /\ [][NextRace]_vars

(***************************************************************************)
(* One caller that searches a memory loaded from a file whose entries have *)
(* vectors of one dimension and validity windows around the clock.         *)
(***************************************************************************)
SearchVectors == {<<1, 0>>, <<2, 0>>, <<1, 1>>}
Windows == {<<0, 0>>, <<2, 0>>, <<0, 2>>}
SearchEntries(n) ==
    {[i \in 1..n |-> WindowEntry(0 - i, v[i], w[i][1], w[i][2])] :
        v \in [1..n -> SearchVectors], w \in [1..n -> Windows]}
SearchFiles ==
    UNION {{Some(Lines(entries)) : entries \in SearchEntries(n)} :
              n \in 0..MAX_MEMORY_ENTRIES}

InitSearch ==
    /\ missions = EmptyMap
    /\ ret = Ret("new", NoTask, NoTask, None)
    /\ bus = NewBus
    /\ procs = IdleProcs
    /\ clock = 1
    /\ \E file \in SearchFiles : vm = NewVM(file)
    /\ hist = NoHist
    /\ router = NewRouter
    /\ stream = NoStream
    /\ episodic = NewEpisodic
    /\ workspace = NewWorkspace

NextSearch ==
    \/ set_embedder("p1") /\ OnlyVM
    \/ \E top_k \in TopKArgs, temporal_filter \in TemporalFilters :
           search_begin("p1", top_k, temporal_filter) /\ OnlyVM
    \/ search_embedded("p1", QueryVectors) /\ OnlyVM
    \/ clock < MaxNow /\ vm_tick

SpecSearch == InitSearch /\ [][NextSearch]_vars

(***************************************************************************)
(* The inference router: call_llm and embed are split at the mutex and at  *)
(* the request they await.                                                 *)
(***************************************************************************)
OnlyRouter == UNCHANGED <<missions, bus, vm, clock, hist, stream, episodic, workspace>>

\* Router::add_backend, lines 61-66
add_backend(p, name) ==
    /\ procs[p].pc = "idle"
    /\ RouterLockFree
    /\ router' = [router EXCEPT !.backends = router.backends \cup {name}]
    /\ ret' = Ret("add_backend", name, p, Ok(None))
    /\ UNCHANGED procs

\* Router::add_model_mapping, lines 68-73
add_model_mapping(p, model_key, backend, model_id) ==
    /\ procs[p].pc = "idle"
    /\ RouterLockFree
    /\ router' = [router EXCEPT
                     !.model_map = MapInsert(router.model_map, model_key,
                                             <<backend, model_id>>)]
    /\ ret' = Ret("add_model_mapping", model_key, p, Ok(None))
    /\ UNCHANGED procs

\* call_llm line 79, embed line 108: inner_arc.lock().await
route_lock(p, op, model_key) ==
    /\ procs[p].pc = "idle"
    /\ RouterLockFree
    /\ router' = [router EXCEPT !.lock = Some(p)]
    /\ procs' = [procs EXCEPT ![p] = [pc |-> "route_resolve", op |-> op, key |-> model_key]]
    /\ UNCHANGED ret

\* call_llm lines 80-91, embed lines 109-117: the lookup, the request built
\* and the guard dropped; the ? of line 83 / 112 returns and drops the guard
route_resolve(p) ==
    /\ procs[p].pc = "route_resolve"
    /\ \E res \in Resolve(router, procs[p].key) :
         IF res[1] \in router.backends
         THEN /\ router' = [router EXCEPT !.lock = Released(p)]
              /\ procs' = [procs EXCEPT ![p] =
                              [pc |-> "route_await", op |-> procs[p].op,
                               key |-> procs[p].key, backend |-> res[1],
                               model |-> res[2]]]
              /\ UNCHANGED ret
         ELSE /\ router' = [router EXCEPT !.lock = Null]
              /\ procs' = [procs EXCEPT ![p] = Idle]
              /\ ret' = Ret(procs[p].op, procs[p].key, p, BackendNotFound(res[1]))

\* call_llm line 92, embed line 118: req.send().await? gives a response
\* with a status, or a transport error
route_respond(p) ==
    /\ procs[p].pc = "route_await"
    /\ \/ /\ ret' = Ret(procs[p].op, procs[p].key, p, Err("HttpError"))
          /\ procs' = [procs EXCEPT ![p] = Idle]
       \/ \E status \in Statuses :
            /\ procs' = [procs EXCEPT ![p] =
                            [pc |-> "route_status", op |-> procs[p].op,
                             key |-> procs[p].key, model |-> procs[p].model,
                             status |-> status]]
            /\ UNCHANGED ret
    /\ UNCHANGED router

\* call_llm lines 93-100, embed lines 119-122: the status check, then the
\* body parsed
route_return(p) ==
    /\ procs[p].pc = "route_status"
    /\ IF IsSuccess(procs[p].status)
       THEN \/ ret' = Ret(procs[p].op, procs[p].key, p, Ok(procs[p].model))
            \/ ret' = Ret(procs[p].op, procs[p].key, p, Err("JsonError"))
       ELSE ret' = Ret(procs[p].op, procs[p].key, p, ApiError(procs[p].status))
    /\ procs' = [procs EXCEPT ![p] = Idle]
    /\ UNCHANGED router

NextRouter ==
    \/ \E p \in Procs, name \in BackendNames : add_backend(p, name) /\ OnlyRouter
    \/ \E p \in Procs, backend \in BackendNames, model_id \in ModelIds :
           add_model_mapping(p, MappedAlias, backend, model_id) /\ OnlyRouter
    \/ \E p \in Procs, op \in RouterOps, model_key \in ModelKeys :
           route_lock(p, op, model_key) /\ OnlyRouter
    \/ \E p \in Procs : route_resolve(p) /\ OnlyRouter
    \/ \E p \in Procs : route_respond(p) /\ OnlyRouter
    \/ \E p \in Procs : route_return(p) /\ OnlyRouter

SpecRouter == Init /\ [][NextRouter]_vars

(***************************************************************************)
(* The adapters: an operation is split at the request it awaits and at the *)
(* status check.                                                           *)
(***************************************************************************)
OnlyAdapter == UNCHANGED <<missions, bus, vm, clock, router, stream, episodic, workspace>>

\* the operation called: the request sent, or Ok(true) without one
adapter_send(p, adapter, op) ==
    /\ procs[p].pc = "idle"
    /\ IF SendsRequest(adapter, op)
       THEN /\ procs' = [procs EXCEPT ![p] =
                            [pc |-> "adapter_await", adapter |-> adapter, op |-> op]]
            /\ UNCHANGED ret
       ELSE /\ ret' = Ret(op, adapter, p, Ok(TRUE))
            /\ UNCHANGED procs
    /\ hist' = [hist EXCEPT !.response = Null]

\* send().await?: a response, or a transport error
adapter_respond(p) ==
    /\ procs[p].pc = "adapter_await"
    /\ \/ /\ ret' = Ret(procs[p].op, procs[p].adapter, p, Err("HttpError"))
          /\ procs' = [procs EXCEPT ![p] = Idle]
          /\ UNCHANGED hist
       \/ \E status \in Statuses, body \in Bodies(procs[p].op) :
            /\ procs' = [procs EXCEPT ![p] =
                            [pc |-> "adapter_status", adapter |-> procs[p].adapter,
                             op |-> procs[p].op, status |-> status, body |-> body]]
            /\ hist' = [hist EXCEPT !.response = Some([status |-> status, body |-> body])]
            /\ UNCHANGED ret

\* the status check and the body parsed
adapter_return(p) ==
    /\ procs[p].pc = "adapter_status"
    /\ ret' = Ret(procs[p].op, procs[p].adapter, p,
                  AdapterResult(procs[p].adapter, procs[p].op, procs[p].status,
                                procs[p].body))
    /\ procs' = [procs EXCEPT ![p] = Idle]
    /\ UNCHANGED hist

(***************************************************************************)
(* One caller of the router and of the three adapters.                     *)
(***************************************************************************)
NextAdapter ==
    \/ add_backend("p1", "b1") /\ OnlyRouter
    \/ \E model_id \in ModelIds :
           add_model_mapping("p1", MappedAlias, "b1", model_id) /\ OnlyRouter
    \/ \E op \in RouterOps, model_key \in ModelKeys :
           route_lock("p1", op, model_key) /\ OnlyRouter
    \/ route_resolve("p1") /\ OnlyRouter
    \/ route_respond("p1") /\ OnlyRouter
    \/ route_return("p1") /\ OnlyRouter
    \/ \E adapter \in Adapters, op \in AdapterOps :
           adapter_send("p1", adapter, op) /\ OnlyAdapter
    \/ adapter_respond("p1") /\ OnlyAdapter
    \/ adapter_return("p1") /\ OnlyAdapter

SpecAdapter == Init /\ [][NextAdapter]_vars

(***************************************************************************)
(* call_llm_stream of the three adapters: split at the request, at every   *)
(* chunk it awaits and at every line, where it may await the channel.  The *)
(* consumer takes tokens from the channel or drops its receiver.           *)
(***************************************************************************)
OnlyStream == UNCHANGED <<missions, bus, vm, clock, router, episodic, workspace>>

\* the request sent, with a channel the consumer holds the other end of
stream_begin(p, adapter) ==
    /\ procs[p].pc = "idle"
    /\ procs' = [procs EXCEPT ![p] = [pc |-> "stream_await", adapter |-> adapter]]
    /\ stream' = [NoStream EXCEPT !.adapter = adapter]
    /\ hist' = [hist EXCEPT !.response = Null]
    /\ UNCHANGED ret

\* send().await? and the status check: openai.rs 302-311, llamacpp.rs
\* 212-221, ollama.rs 241-250
stream_response(p, bodies) ==
    /\ procs[p].pc = "stream_await"
    /\ \/ /\ ret' = Ret("call_llm_stream", procs[p].adapter, p, Err("HttpError"))
          /\ procs' = [procs EXCEPT ![p] = Idle]
          /\ UNCHANGED <<stream, hist>>
       \/ \E status \in Statuses, body \in bodies[procs[p].adapter] :
            /\ hist' = [hist EXCEPT !.response = Some([status |-> status, body |-> body])]
            /\ IF IsSuccess(status)
               THEN /\ stream' = [stream EXCEPT !.net = body]
                    /\ procs' = [procs EXCEPT ![p] =
                                    [pc |-> "stream_next", adapter |-> procs[p].adapter]]
                    /\ UNCHANGED ret
               ELSE /\ ret' = Ret("call_llm_stream", procs[p].adapter, p, ApiError(status))
                    /\ procs' = [procs EXCEPT ![p] = Idle]
                    /\ UNCHANGED stream

\* stream.next().await gives the next chunk (any cut of what is left of the
\* body), an error, or the end: openai.rs 317-320 and 345
stream_next(p) ==
    /\ procs[p].pc = "stream_next"
    /\ IF stream.net = <<>>
       THEN /\ ret' = Ret("call_llm_stream", procs[p].adapter, p, Ok(stream.full_content))
            /\ procs' = [procs EXCEPT ![p] = Idle]
            /\ UNCHANGED stream
       ELSE \/ \E n \in 1..Len(stream.net) :
                 /\ stream' = [stream EXCEPT
                                  !.buffer = stream.buffer
                                               \o from_utf8_lossy(SubSeq(stream.net, 1, n)),
                                  !.net = SubSeq(stream.net, n + 1, Len(stream.net))]
                 /\ procs' = [procs EXCEPT ![p] =
                                 [pc |-> "stream_lines", adapter |-> procs[p].adapter]]
                 /\ UNCHANGED ret
            \/ /\ ret' = Ret("call_llm_stream", procs[p].adapter, p, Err("HttpError"))
               /\ procs' = [procs EXCEPT ![p] = Idle]
               /\ UNCHANGED stream
    /\ UNCHANGED hist

\* one turn of the loop over the lines of the buffer: openai.rs 323-343,
\* llamacpp.rs 233-252, ollama.rs 262-282
stream_line(p) ==
    /\ procs[p].pc = "stream_lines"
    /\ LET adapter == procs[p].adapter
           newline_pos == FindNewline(stream.buffer)
           line == LineOf(SubSeq(stream.buffer, 1, newline_pos - 1))
           rest == SubSeq(stream.buffer, newline_pos + 1, Len(stream.buffer))
           token == LineToken(adapter, line)
           terminal == stream.terminal \/ IsTerminalLine(adapter, line)
       IN IF newline_pos = 0
          THEN /\ procs' = [procs EXCEPT ![p] = [pc |-> "stream_next", adapter |-> adapter]]
               /\ UNCHANGED <<stream, ret>>
          ELSE IF token = Null
          THEN /\ stream' = [stream EXCEPT !.buffer = rest, !.terminal = terminal]
               /\ procs' = [procs EXCEPT ![p] =
                               [pc |-> IF LineBreaks(adapter, line) THEN "stream_next"
                                                                    ELSE "stream_lines",
                                adapter |-> adapter]]
               /\ UNCHANGED ret
          ELSE /\ SendReady
               /\ stream' = [stream EXCEPT
                                !.buffer = rest,
                                !.terminal = terminal,
                                !.full_content = stream.full_content \o token[1],
                                !.sent = Append(stream.sent, token[1]),
                                !.queue = IF stream.rx_open
                                          THEN Append(stream.queue, token[1])
                                          ELSE stream.queue]
               /\ IF IgnoreSendResult(stream.rx_open)
                  THEN /\ procs' = [procs EXCEPT ![p] =
                                       [pc |-> IF LineBreaks(adapter, line)
                                               THEN "stream_next" ELSE "stream_lines",
                                        adapter |-> adapter]]
                       /\ UNCHANGED ret
                  ELSE /\ procs' = [procs EXCEPT ![p] = Idle]
                       /\ ret' = Ret("call_llm_stream", adapter, p, Err("ChannelError"))
    /\ UNCHANGED hist

\* the consumer: Receiver::recv
rx_recv ==
    /\ stream.rx_open
    /\ stream.queue # <<>>
    /\ stream' = [stream EXCEPT !.queue = Tail(stream.queue)]
    /\ UNCHANGED <<ret, procs, hist>>

\* the consumer drops the receiver
rx_drop ==
    /\ stream.rx_open
    /\ stream.adapter # "none"
    /\ stream' = [stream EXCEPT !.rx_open = FALSE]
    /\ UNCHANGED <<ret, procs, hist>>

(***************************************************************************)
(* One streaming call and its consumer.                                    *)
(***************************************************************************)
NextStream ==
    \/ \E adapter \in Adapters :
           stream.adapter = "none" /\ stream_begin("p1", adapter) /\ OnlyStream
    \/ stream_response("p1", LineBodies) /\ OnlyStream
    \/ stream_next("p1") /\ OnlyStream
    \/ stream_line("p1") /\ OnlyStream
    \/ rx_recv /\ OnlyStream
    \/ rx_drop /\ OnlyStream

SpecStream == Init /\ [][NextStream]_vars

(***************************************************************************)
(* The same call on bodies with a character of two bytes: a chunk may end  *)
(* between the two.                                                        *)
(***************************************************************************)
NextBytes ==
    \/ \E adapter \in Adapters :
           stream.adapter = "none" /\ stream_begin("p1", adapter) /\ OnlyStream
    \/ stream_response("p1", ByteBodies) /\ OnlyStream
    \/ stream_next("p1") /\ OnlyStream
    \/ stream_line("p1") /\ OnlyStream
    \/ rx_recv /\ OnlyStream
    \/ rx_drop /\ OnlyStream

SpecBytes == Init /\ [][NextBytes]_vars

(***************************************************************************)
(* The episodic memory.  Every method runs its one statement under the     *)
(* mutex; evict_low_importance computes its cutoff before it takes it.     *)
(***************************************************************************)
OnlyEpisodic == UNCHANGED <<missions, bus, vm, hist, router, stream, workspace>>

\* EpisodicMemory::store, lines 80-90
ep_store(p, importance) ==
    /\ procs[p].pc = "idle"
    /\ episodic' = [rows |-> Append(episodic.rows,
                                    EpisodicRow(episodic.next_id, UnwrapOr(importance, 4),
                                                clock, Null)),
                    next_id |-> episodic.next_id + 1]
    /\ ret' = Ret("ep_store", NoTask, p, Ok(episodic.next_id))
    /\ UNCHANGED <<procs, clock>>

\* EpisodicMemory::decay_importance, lines 110-115
decay_importance(p, decay) ==
    /\ procs[p].pc = "idle"
    /\ episodic' = [episodic EXCEPT
                       !.rows = [k \in 1..Len(episodic.rows) |->
                                   [episodic.rows[k] EXCEPT
                                       !.importance = Decayed(episodic.rows[k].importance,
                                                              decay)]]]
    /\ ret' = Ret("decay_importance", NoTask, p, Ok(Len(episodic.rows)))
    /\ UNCHANGED <<procs, clock>>

\* evict_low_importance, lines 119-120: the threshold and the cutoff
evict_cutoff(p, min_age_days, min_importance) ==
    /\ procs[p].pc = "idle"
    /\ IF DurationPanics(AsI64(min_age_days))
       THEN /\ ret' = Ret("evict_low_importance", NoTask, p, Err("panic"))
            /\ UNCHANGED procs
       ELSE /\ procs' = [procs EXCEPT ![p] =
                            [pc |-> "evict", now |-> clock,
                             min_age_days |-> min_age_days,
                             min_importance |-> min_importance,
                             cutoff |-> clock - AsI64(min_age_days)]]
            /\ UNCHANGED ret
    /\ UNCHANGED <<episodic, clock>>

\* evict_low_importance, lines 121-123: the DELETE and its row count
evict_delete(p) ==
    /\ procs[p].pc = "evict"
    /\ LET Deleted(row) == EvictWhere(row, procs[p].min_importance, procs[p].cutoff)
           kept == Keep(episodic.rows, Deleted)
       IN /\ episodic' = [episodic EXCEPT !.rows = kept]
          /\ ret' = Ret("evict_low_importance", NoTask, p,
                        Ok(Len(episodic.rows) - Len(kept)))
    /\ procs' = [procs EXCEPT ![p] = Idle]
    /\ UNCHANGED clock

\* a day passes
day_passes ==
    /\ clock' = clock + 1
    /\ UNCHANGED <<ret, procs, episodic>>

InitEpisodic ==
    /\ missions = EmptyMap
    /\ ret = Ret("new", NoTask, NoTask, None)
    /\ bus = NewBus
    /\ vm = NewVM(Null)
    /\ procs = IdleProcs
    /\ clock = 1
    /\ hist = NoHist
    /\ router = NewRouter
    /\ stream = NoStream
    /\ \E rows \in EpisodicTables : episodic = [NewEpisodic EXCEPT !.rows = rows]
    /\ workspace = NewWorkspace

NextEpisodic ==
    \/ \E importance \in ImportanceArgs :
           episodic.next_id <= MaxRows /\ ep_store("p1", importance) /\ OnlyEpisodic
    \/ \E decay \in DecayArgs : decay_importance("p1", decay) /\ OnlyEpisodic
    \/ \E min_age_days \in AgeArgs, min_importance \in MinImportanceArgs :
           evict_cutoff("p1", min_age_days, min_importance) /\ OnlyEpisodic
    \/ evict_delete("p1") /\ OnlyEpisodic
    \/ clock < MaxDay /\ day_passes /\ OnlyEpisodic

SpecEpisodic == InitEpisodic /\ [][NextEpisodic]_vars

(***************************************************************************)
(* The shared workspace: add draws its id and its timestamp before it      *)
(* waits for the write lock; the other methods are one statement under the *)
(* lock.  hist.added is the rows of the add calls that have returned and   *)
(* that no clear has covered since.                                        *)
(***************************************************************************)
OnlyWorkspace == UNCHANGED <<missions, bus, vm, router, stream, episodic>>

\* SharedWorkspace::add, lines 62-63
ws_add_begin(p, mission_id, agent_id, entry_type, content) ==
    /\ procs[p].pc = "idle"
    /\ procs' = [procs EXCEPT ![p] =
                    [pc |-> "ws_insert",
                     row |-> WsRow(clock, mission_id, agent_id, entry_type, content, clock)]]
    /\ clock' = clock + 1
    /\ UNCHANGED <<workspace, ret, hist>>

\* SharedWorkspace::add, lines 64-69
ws_insert(p) ==
    /\ procs[p].pc = "ws_insert"
    /\ workspace' = Append(workspace, procs[p].row)
    /\ ret' = Ret("add", procs[p].row.mission_id, p, Ok(procs[p].row.id))
    /\ hist' = [hist EXCEPT !.added = hist.added \cup {procs[p].row}]
    /\ procs' = [procs EXCEPT ![p] = Idle]
    /\ UNCHANGED clock

\* SharedWorkspace::query
ws_query(p, mission_id, agent_id, entry_type) ==
    /\ procs[p].pc = "idle"
    /\ ret' = Ret("query", mission_id, p,
                  QueryResult(Query(workspace, mission_id, agent_id, entry_type),
                              agent_id, entry_type))
    /\ UNCHANGED <<workspace, procs, clock, hist>>

\* SharedWorkspace::clear_mission, lines 131-136
clear_mission(p, mission_id) ==
    /\ procs[p].pc = "idle"
    /\ LET kept == SelectSeq(workspace, LAMBDA row : row.mission_id # mission_id)
       IN /\ workspace' = kept
          /\ ret' = Ret("clear_mission", mission_id, p, Ok(Len(workspace) - Len(kept)))
    /\ hist' = [hist EXCEPT !.added = {row \in hist.added : row.mission_id # mission_id}]
    /\ UNCHANGED <<procs, clock>>

\* SharedWorkspace::clear, lines 144-149
ws_clear(p) ==
    /\ procs[p].pc = "idle"
    /\ workspace' = <<>>
    /\ ret' = Ret("ws_clear", NoTask, p, Ok(None))
    /\ hist' = [hist EXCEPT !.added = {}]
    /\ UNCHANGED <<procs, clock>>

(***************************************************************************)
(* One caller that adds, queries and clears, and a second one that adds    *)
(* notes of one agent to one mission.                                      *)
(***************************************************************************)
NextWorkspace ==
    \/ \E mission_id \in WsMissions, agent_id \in Agents,
          entry_type \in WsTypes, content \in WsContents :
           /\ CanRead(MaxAdds)
           /\ ws_add_begin("p1", mission_id, agent_id, entry_type, content)
           /\ OnlyWorkspace
    \/ \E content \in WsContents :
           /\ CanRead(MaxAdds)
           /\ ws_add_begin("p2", "m1", "r1", "note", content)
           /\ OnlyWorkspace
    \/ \E p \in Procs : ws_insert(p) /\ OnlyWorkspace
    \/ \E mission_id \in WsMissions,
          agent_id \in {Null} \cup {Some(a) : a \in Agents},
          entry_type \in {Null} \cup {Some(t) : t \in WsTypes} :
           ws_query("p1", mission_id, agent_id, entry_type) /\ OnlyWorkspace
    \/ \E mission_id \in WsMissions : clear_mission("p1", mission_id) /\ OnlyWorkspace
    \/ ws_clear("p1") /\ OnlyWorkspace

SpecWorkspace == Init /\ [][NextWorkspace]_vars

(***************************************************************************)
(* clear_completed among other callers of the scheduler.  The DashMap      *)
(* guards of its iteration are gone when the list is collected, and every  *)
(* remove takes the guard of one key anew, so other calls run in between.  *)
(* The list is kept as a set: its order is the iteration order of the map. *)
(* removed counts the keys a call found in the map when it removed them.   *)
(***************************************************************************)
OnlyClear == UNCHANGED <<bus, vm, clock, hist>> /\ Others

\* clear_completed, lines 159-160
clear_collect(p) ==
    /\ procs[p].pc = "idle"
    /\ LET to_remove == {id \in DOMAIN missions : IsTerminal(missions[id])}
       IN procs' = [procs EXCEPT ![p] =
                       [pc |-> "clear_remove", to_remove |-> to_remove,
                        count |-> Cardinality(to_remove), removed |-> 0]]
    /\ UNCHANGED <<missions, ret>>

\* clear_completed, lines 161-162: one turn of the loop, or the return
clear_remove(p) ==
    /\ procs[p].pc = "clear_remove"
    /\ IF procs[p].to_remove = {}
       THEN /\ ret' = Ret("clear_completed", NoTask, p, procs[p].count)
            /\ procs' = [procs EXCEPT ![p] = Idle]
            /\ UNCHANGED missions
       ELSE \E id \in procs[p].to_remove :
              /\ missions' = MapRemove(missions, {id})
              /\ procs' = [procs EXCEPT
                              ![p].to_remove = procs[p].to_remove \ {id},
                              ![p].removed = procs[p].removed
                                               + (IF id \in DOMAIN missions THEN 1 ELSE 0)]
              /\ UNCHANGED ret

SomeoneIdle == \E p \in Procs : procs[p].pc = "idle"

(***************************************************************************)
(* Two callers that submit, cancel and clear.                              *)
(***************************************************************************)
NextClear ==
    \/ \E mission_id \in MapMissionIds :
           SomeoneIdle /\ submit_mission(mission_id, MapLists) /\ OnlyScheduler
    \/ \E mission_id \in MapMissionIds :
           SomeoneIdle /\ cancel_mission(mission_id) /\ OnlyScheduler
    \/ \E p \in Procs : clear_collect(p) /\ OnlyClear
    \/ \E p \in Procs : clear_remove(p) /\ OnlyClear

SpecClear == Init /\ [][NextClear]_vars

(***************************************************************************)
(* submit_mission among other callers.  contains_key takes and drops the   *)
(* guard of the shard (line 69); the task map and the waves are built with *)
(* no guard held; insert takes the guard again (line 78).                  *)
(***************************************************************************)
\* submit_mission, lines 69-77
submit_check(p, mission_id, lists) ==
    /\ procs[p].pc = "idle"
    /\ IF mission_id \in DOMAIN missions
       THEN /\ ret' = Ret("submit_mission", mission_id, p, "MissionAlreadyExists")
            /\ UNCHANGED procs
       ELSE \E tasks \in lists :
              LET task_map == BuildTaskMap(tasks, 1, EmptyMap)
              IN \E order \in Perms(DOMAIN task_map) :
                   /\ procs' = [procs EXCEPT ![p] =
                                   [pc |-> "submit_insert", mission_id |-> mission_id,
                                    mission |-> NewMission(task_map, order)]]
                   /\ UNCHANGED ret
    /\ UNCHANGED missions

\* submit_mission, lines 78-79: DashMap::insert replaces the value of a key
\* that is there
submit_insert(p) ==
    /\ procs[p].pc = "submit_insert"
    /\ missions' = MapInsert(missions, procs[p].mission_id, procs[p].mission)
    /\ ret' = Ret("submit_mission", procs[p].mission_id, p, "Ok")
    /\ procs' = [procs EXCEPT ![p] = Idle]

(***************************************************************************)
(* Two callers that submit, while tasks are started and completed.         *)
(***************************************************************************)
NextSubmitRace ==
    \/ \E p \in Procs : submit_check(p, "m1", MapLists) /\ OnlyClear
    \/ \E p \in Procs : submit_insert(p) /\ OnlyClear
    \/ \E tid \in {"a", GhostId} :
           SomeoneIdle /\ start_task("m1", tid) /\ OnlyScheduler
    \/ \E tid \in {"a", GhostId} :
           SomeoneIdle /\ complete_task("m1", tid) /\ OnlyScheduler

SpecSubmitRace == Init /\ [][NextSubmitRace]_vars

(***************************************************************************)
(* Claims.                                                                 *)
(***************************************************************************)
Terminal(status) == status \in {"completed", "failed"}

\* A mission that is in the map before and after a step (no handler removes
\* and re-inserts a mission in one call, so it is the same mission).
Kept == (DOMAIN missions) \cap (DOMAIN missions')

Forward(old, new) ==
    \/ new = old
    \/ old = "pending" /\ new \in {"running", "completed", "failed"}
    \/ old = "running" /\ new \in {"completed", "failed"}

\* C1: a task's status only moves forward along pending -> running ->
\* {completed, failed}; a completed or failed task never changes status again.
C1_TaskNeverRetrogresses ==
    [][\A mid \in Kept : \A tid \in DOMAIN missions[mid].tasks :
          Forward(missions[mid].tasks[tid].status, missions'[mid].tasks[tid].status)]_vars

\* C2: once a mission's status is completed or failed, no later call changes it.
C2_MissionStatusSticky ==
    [][\A mid \in Kept :
          Terminal(missions[mid].status) => missions'[mid].status = missions[mid].status]_vars

\* C3: after fail_task on a task of a running mission, or after a successful
\* cancel_mission, the mission is failed and get_ready_tasks returns nothing.
C3_FailedOffersNoReadyTasks ==
    [][\A mid \in Kept :
          (/\ missions[mid].status = "running"
           /\ ret'.mid = mid
           /\ \/ ret'.op = "fail_task" /\ ret'.tid \in DOMAIN missions[mid].tasks
              \/ ret'.op = "cancel_mission" /\ ret'.val = TRUE)
          => /\ missions'[mid].status = "failed"
             /\ ReadyTasks(missions'[mid]) = <<>>]_vars

\* C4: for every mission, completed_tasks <= total_tasks.
C4_CompletedAtMostTotal ==
    \A mid \in DOMAIN missions :
        missions[mid].completed_tasks <= missions[mid].total_tasks

WaveTerminal(m, k) ==
    \A tid \in Range(m.levels[k]) : Terminal(m.tasks[tid].status)

\* C5: current_level never decreases and never exceeds len(levels); it moves
\* only on a complete_task call, by one wave, and only when every task of the
\* wave it leaves is completed or failed at that call.
C5_WaveIndexForward ==
    [][/\ \A mid \in DOMAIN missions' :
             missions'[mid].current_level <= Len(missions'[mid].levels)
       /\ \A mid \in Kept :
             LET m == missions[mid]
                 n == missions'[mid]
             IN /\ n.current_level >= m.current_level
                /\ n.current_level # m.current_level
                     => /\ n.current_level = m.current_level + 1
                        /\ ret'.op = "complete_task" /\ ret'.mid = mid
                        /\ WaveTerminal(n, m.current_level + 1)]_vars

\* C5 witness: a complete_task call has just closed the two-task wave [B, C] of
\* the diamond and the mission runs on in its last wave.
C5_Witness ==
    \E mid \in DOMAIN missions :
        /\ ret.op = "complete_task" /\ ret.mid = mid
        /\ Len(missions[mid].levels) = 3
        /\ missions[mid].current_level = 2
        /\ Len(missions[mid].levels[2]) = 2
        /\ ret.tid \in Range(missions[mid].levels[2])
        /\ missions[mid].status = "running"

EarlierWaves(levels, k) == UNION {Range(levels[j]) : j \in 1..(k - 1)}

\* No dependency cycle (self-dependencies included): no non-empty set of tasks
\* in which every task depends on a task of the set.
Acyclic(tasks) ==
    ~ \E S \in SUBSET (DOMAIN tasks) :
          S # {} /\ \A t \in S : tasks[t].depends_on \cap S # {}

DepsExist(tasks) == \A t \in DOMAIN tasks : tasks[t].depends_on \subseteq DOMAIN tasks

DiamondMission(m) ==
    /\ DOMAIN m.tasks = DiamondIds
    /\ m.tasks["A"].depends_on = {} /\ m.tasks["B"].depends_on = {"A"}
    /\ m.tasks["C"].depends_on = {"A"} /\ m.tasks["D"].depends_on = {"B", "C"}

\* C6: on an acyclic graph whose dependencies all exist the waves are the
\* topological layering: wave 0 is the tasks without dependencies, wave k the
\* tasks not emitted earlier whose dependencies all lie in earlier waves, and
\* every task sits in a wave after all its dependencies; the diamond gives
\* [[A],[B,C],[D]] up to the order inside a wave.
C6_TopologicalLayering ==
    \A mid \in DOMAIN missions :
        LET m == missions[mid]
            W(k) == Range(m.levels[k])
            E(k) == EarlierWaves(m.levels, k)
        IN (Acyclic(m.tasks) /\ DepsExist(m.tasks)) =>
             /\ m.tasks # EmptyMap =>
                  /\ Len(m.levels) >= 1
                  /\ W(1) = {t \in DOMAIN m.tasks : m.tasks[t].depends_on = {}}
             /\ \A k \in 1..Len(m.levels) :
                  W(k) = {t \in (DOMAIN m.tasks) \ E(k) : m.tasks[t].depends_on \subseteq E(k)}
             /\ \A t \in DOMAIN m.tasks :
                  \E k \in 1..Len(m.levels) : t \in W(k) /\ m.tasks[t].depends_on \subseteq E(k)
             /\ DiamondMission(m) =>
                  /\ Len(m.levels) = 3
                  /\ W(1) = {"A"} /\ W(2) = {"B", "C"} /\ W(3) = {"D"}

\* C6 witness: the diamond has been submitted and layered into three waves.
C6_Witness ==
    \E mid \in DOMAIN missions :
        /\ ret.op = "submit_mission" /\ ret.val = "Ok"
        /\ DiamondMission(missions[mid])
        /\ Len(missions[mid].levels) = 3

RECURSIVE SumLen(_, _)
SumLen(levels, k) == IF k = 0 THEN 0 ELSE Len(levels[k]) + SumLen(levels, k - 1)

Occurrences(levels, tid) ==
    {<<k, i>> \in (1..Len(levels)) \X (1..SumLen(levels, Len(levels))) :
        i <= Len(levels[k]) /\ levels[k][i] = tid}

\* The tasks still to emit at wave k of which none is ready: a cyclic residue.
Residue(m, k) ==
    LET rem == (DOMAIN m.tasks) \ EarlierWaves(m.levels, k)
    IN \A t \in rem : m.tasks[t].depends_on \cap rem # {}

\* C7: for any submitted task list the waves partition the mission's tasks:
\* every task id is in exactly one wave at exactly one place, the waves hold
\* task ids only, no wave is empty, the wave lengths sum to total_tasks, and a
\* cyclic residue is emitted whole as the single last wave.
C7_WavesPartitionTasks ==
    \A mid \in DOMAIN missions :
        LET m == missions[mid]
        IN /\ \A tid \in DOMAIN m.tasks : Cardinality(Occurrences(m.levels, tid)) = 1
           /\ \A k \in 1..Len(m.levels) :
                /\ Range(m.levels[k]) \subseteq DOMAIN m.tasks
                /\ m.levels[k] # <<>>
                /\ Residue(m, k) =>
                     /\ k = Len(m.levels)
                     /\ Range(m.levels[k]) = (DOMAIN m.tasks) \ EarlierWaves(m.levels, k)
           /\ SumLen(m.levels, Len(m.levels)) = m.total_tasks
           /\ m.total_tasks = Cardinality(DOMAIN m.tasks)

\* C7 witness: a submission with a dependency cycle behind a regular wave: the
\* last wave is a residue of at least two tasks.
C7_Witness ==
    \E mid \in DOMAIN missions :
        LET m == missions[mid]
        IN /\ ret.op = "submit_mission" /\ ret.val = "Ok"
           /\ Len(m.levels) >= 2
           /\ Residue(m, Len(m.levels))
           /\ Len(m.levels[Len(m.levels)]) >= 2

Done(m) ==
    /\ m.status = "completed"
    /\ \A tid \in DOMAIN m.tasks : m.tasks[tid].status = "completed"
    /\ m.completed_tasks = m.total_tasks

\* C8 as stated: under the cooperative host every submitted mission, whatever
\* its number of tasks (zero included), eventually is completed with every task
\* completed and completed_tasks = total_tasks.
C8_EveryMissionCompletes ==
    \A mid \in MissionIds :
        (mid \in DOMAIN missions) ~> (mid \in DOMAIN missions /\ Done(missions[mid]))

\* Lemma for C8: under the cooperative host every submitted mission with at least
\* one task eventually is completed with every task completed and
\* completed_tasks = total_tasks.
C8_NonEmptyMissionCompletes ==
    \A mid \in MissionIds :
        (mid \in DOMAIN missions /\ missions[mid].total_tasks > 0)
            ~> (mid \in DOMAIN missions /\ Done(missions[mid]))

\* C8 witness: the host has driven the diamond through its three waves.
C8_Witness ==
    \E mid \in DOMAIN missions :
        /\ DiamondMission(missions[mid])
        /\ Done(missions[mid])
        /\ ret.op = "complete_task" /\ ret.tid = "D"

\* C9: the complete_task call that moves current_level past the last wave sets
\* the status to completed and records completed_at in that step; and a mission
\* is completed only if its current_level equals len(levels).
C9_CompletedIffPastLastWave ==
    [][/\ \A mid \in DOMAIN missions' :
             missions'[mid].status = "completed"
                 => missions'[mid].current_level = Len(missions'[mid].levels)
       /\ \A mid \in Kept :
             LET m == missions[mid]
                 n == missions'[mid]
             IN (m.current_level < Len(m.levels) /\ n.current_level >= Len(n.levels))
                  => /\ ret'.op = "complete_task" /\ ret'.mid = mid
                     /\ n.status = "completed"
                     /\ n.completed_at \in Times]_vars

\* C9 witness: a complete_task call has just moved a mission of two waves past
\* its last wave.
C9_Witness ==
    \E mid \in DOMAIN missions :
        /\ ret.op = "complete_task" /\ ret.mid = mid
        /\ Len(missions[mid].levels) = 2
        /\ missions[mid].current_level = 2
        /\ missions[mid].completed_tasks = 2
        /\ missions[mid].status = "completed"

\* C10: submit_mission with an id already in the map fails with
\* MissionAlreadyExists and leaves the whole mission map as it was.
C10_DuplicateSubmitRejected ==
    [][\A mid \in DOMAIN missions :
          (ret'.op = "submit_mission" /\ ret'.mid = mid)
              => /\ ret'.val = "MissionAlreadyExists"
                 /\ missions' = missions]_vars

\* C10 witness: a submission was rejected for a mission that had made progress
\* while the other mission is in the map too.
C10_Witness ==
    /\ ret.op = "submit_mission" /\ ret.val = "MissionAlreadyExists"
    /\ DOMAIN missions = MapMissionIds
    /\ missions[ret.mid].completed_tasks > 0
    /\ \E tid \in DOMAIN missions[ret.mid].tasks :
           missions[ret.mid].tasks[tid].status # "pending"

\* C11: cancel_mission on a running mission sets its status to failed and
\* returns true; on a completed or failed mission, or an id that is not in
\* the map, it returns false and changes nothing: status, completed_at, task
\* statuses, current_level and completed_tasks all stay as they were.
C11_CancelOnlyRunning ==
    [][\A mid \in MapMissionIds :
          (ret'.op = "cancel_mission" /\ ret'.mid = mid)
              => IF mid \in DOMAIN missions /\ missions[mid].status = "running"
                 THEN /\ ret'.val = TRUE
                      /\ mid \in DOMAIN missions'
                      /\ missions'[mid].status = "failed"
                      /\ missions'[mid].tasks = missions[mid].tasks
                      /\ missions'[mid].current_level = missions[mid].current_level
                      /\ missions'[mid].completed_tasks = missions[mid].completed_tasks
                      /\ \A other \in DOMAIN missions \ {mid} :
                             /\ other \in DOMAIN missions'
                             /\ missions'[other] = missions[other]
                 ELSE /\ ret'.val = FALSE
                      /\ missions' = missions]_vars

\* C11 witness: cancel_mission has just returned false for a completed mission
\* (its one task is completed), while the other mission was cancelled before
\* and is failed.
C11_Witness ==
    /\ ret.op = "cancel_mission" /\ ret.val = FALSE
    /\ DOMAIN missions = MapMissionIds
    /\ ret.mid \in DOMAIN missions
    /\ missions[ret.mid].status = "completed"
    /\ missions[ret.mid].completed_tasks = 1
    /\ \E other \in MapMissionIds \ {ret.mid} :
           /\ missions[other].status = "failed"
           /\ missions[other].completed_at \in Times

\* The row of the table with this id, if there is one.
RowsWithId(rows, id) == {i \in 1..Len(rows) : rows[i].id = id}

\* C12: at-most-once pop.  For any interleaving of send and pop_next by the
\* callers of one bus, no message id is returned by two pop_next calls; a
\* processed_at that is set is never cleared; and pop_next never selects a
\* message whose processed_at is set.
C12_AtMostOncePop ==
    [][/\ \A i, j \in 1..Len(hist'.popped) :
              i # j => hist'.popped[i] # hist'.popped[j]
       /\ \A i \in 1..Len(bus.rows) :
              bus.rows[i].processed_at # Null
                  => \A j \in RowsWithId(bus'.rows, bus.rows[i].id) :
                         bus'.rows[j].processed_at # Null
       /\ \A p \in Procs :
              (procs[p].pc = "pop_select" /\ procs'[p].pc = "pop_mark")
                  => \E i \in RowsWithId(bus.rows, procs'[p].msg.id) :
                         bus.rows[i].processed_at = Null]_vars

\* C12 witness: two messages of one agent were returned, by two pops,
\* and a third pop for that agent found nothing, although both rows
\* are still in the table.
C12_Witness ==
    /\ ret.op = "pop_next" /\ ret.val = Null
    /\ Len(hist.popped) = 2
    /\ Len(bus.rows) = 2
    /\ \A i \in 1..2 :
           /\ bus.rows[i].recipient = ret.mid
           /\ bus.rows[i].processed_at # Null
           /\ bus.rows[i].id \in Range(hist.popped)

\* The unprocessed messages of an agent, as the claims read them.
Waiting(rows, agent_id) ==
    {i \in 1..Len(rows) : rows[i].recipient = agent_id /\ rows[i].processed_at = Null}

\* m1 (priority 1), m2 (priority 5), m3 (priority 5) were sent in that order to
\* one agent, and then popped.
ThreeSentThenPopped(rows) ==
    /\ Len(rows) = 3
    /\ \A i \in 1..3 : rows[i].recipient = rows[1].recipient /\ rows[i].processed_at # Null
    /\ rows[1].priority = 1 /\ rows[2].priority = 5 /\ rows[3].priority = 5
    /\ rows[1].created_at < rows[2].created_at /\ rows[2].created_at < rows[3].created_at
    /\ \A i \in 1..3 : rows[3].created_at < rows[i].processed_at[1]

\* C13: pop_next(r) returns, among the unprocessed messages of r at that
\* moment, one of the highest priority and among those the one with the
\* earliest created_at; it returns None exactly when r has no unprocessed
\* message; it never returns or marks a message of another recipient; and
\* m1 (priority 1), m2 (5), m3 (5) sent in that order are popped as m2, m3, m1.
C13_PopOrder ==
    [][/\ \A p \in Procs :
              (procs[p].pc = "pop_select" /\ procs'[p] # procs[p])
                  => LET agent_id == procs[p].agent_id
                         waiting == Waiting(bus.rows, agent_id)
                     IN /\ bus'.rows = bus.rows
                        /\ (waiting = {}) <=> (procs'[p].pc = "idle")
                        /\ procs'[p].pc = "idle"
                               => ret' = Ret("pop_next", agent_id, p, Null)
                        /\ procs'[p].pc # "idle"
                               => /\ procs'[p].pc = "pop_mark"
                                  /\ \E i \in waiting :
                                       /\ bus.rows[i].id = procs'[p].msg.id
                                       /\ bus.rows[i].content = procs'[p].msg.content
                                       /\ \A j \in waiting :
                                            /\ bus.rows[j].priority <= bus.rows[i].priority
                                            /\ bus.rows[j].priority = bus.rows[i].priority
                                                 => bus.rows[i].created_at <= bus.rows[j].created_at
       /\ \A p \in Procs :
              (procs[p].pc = "pop_mark" /\ procs'[p] # procs[p])
                  => /\ ret' = Ret("pop_next", procs[p].agent_id, p, Some(procs[p].msg))
                     /\ Len(bus'.rows) = Len(bus.rows)
                     /\ \A i \in 1..Len(bus.rows) :
                          IF bus.rows[i].id = procs[p].msg.id
                          THEN /\ bus.rows[i].recipient = procs[p].agent_id
                               /\ bus'.rows[i] =
                                    [bus.rows[i] EXCEPT !.processed_at = Some(procs[p].now)]
                          ELSE bus'.rows[i] = bus.rows[i]
       /\ ThreeSentThenPopped(bus'.rows)
              => /\ bus'.rows[2].processed_at[1] < bus'.rows[3].processed_at[1]
                 /\ bus'.rows[3].processed_at[1] < bus'.rows[1].processed_at[1]
                 /\ Len(hist'.popped) >= 3
                 /\ SubSeq(hist'.popped, Len(hist'.popped) - 2, Len(hist'.popped))
                        = <<bus'.rows[2].id, bus'.rows[3].id, bus'.rows[1].id>>]_vars

\* C13 witness: the three messages of the scenario have been sent and the
\* third pop has just returned m1.
C13_Witness ==
    /\ ThreeSentThenPopped(bus.rows)
    /\ ret.op = "pop_next" /\ ret.val = Some([id |-> bus.rows[1].id, content |-> Benign])
    /\ hist.popped = <<bus.rows[2].id, bus.rows[3].id, bus.rows[1].id>>

\* The contents of the catalogue that one of the three patterns matches.
Matching ==
    {Override, <<"ignore", "previous", "instruction">>, <<"SYSTEM:", "hello">>,
     <<"Jailbreaking">>}

\* C14: injection screening never blocks delivery.  send stores every
\* message whatever its content; a content that matches an injection pattern
\* is stored with the payload flag _injection_warning, any other content
\* without it; and a flagged message is popped under the same ordering rule
\* as any other message.
C14_ScreeningNeverBlocks ==
    [][/\ \A content \in Contents : DetectInjection(content) <=> content \in Matching
       /\ \A p \in Procs :
              (procs[p].pc = "send_insert" /\ procs'[p] # procs[p])
                  => /\ bus'.rows =
                          Append(bus.rows,
                                 [procs[p].row EXCEPT
                                     !.payload = procs[p].row.content \in Matching,
                                     !.processed_at = Null])
                     /\ ret'.op = "send" /\ ret'.val = procs[p].row.id
       /\ \A p \in Procs :
              (procs[p].pc = "pop_select" /\ procs'[p] # procs[p])
                  => \A j \in Waiting(bus.rows, procs[p].agent_id) :
                         bus.rows[j].payload
                             => /\ procs'[p].pc = "pop_mark"
                                /\ \E i \in RowsWithId(bus.rows, procs'[p].msg.id) :
                                     \/ i = j
                                     \/ bus.rows[i].priority > bus.rows[j].priority
                                     \/ /\ bus.rows[i].priority = bus.rows[j].priority
                                        /\ bus.rows[i].created_at < bus.rows[j].created_at]_vars

\* C14 witness: a flagged message of priority 5 has just been returned by
\* pop_next while an unflagged message of priority 1, sent before it, waits.
C14_Witness ==
    /\ ret.op = "pop_next" /\ ret.val # Null
    /\ ret.val[1].content = Override
    /\ \E i, j \in 1..Len(bus.rows) :
           /\ bus.rows[i].id = ret.val[1].id
           /\ bus.rows[i].payload /\ bus.rows[i].priority = 5
           /\ bus.rows[i].processed_at # Null
           /\ bus.rows[j].created_at < bus.rows[i].created_at
           /\ ~bus.rows[j].payload /\ bus.rows[j].priority = 1
           /\ bus.rows[j].processed_at = Null

\* C15: the vector store never holds more than MAX_MEMORY_ENTRIES entries, in
\* every reachable state: right after the load on start, and after any
\* sequence of store and clear.
C15_NeverOverCapacity == Len(vm.entries) <= MAX_MEMORY_ENTRIES

\* The step in which caller p runs the write block of its store.
WriteStep(p) == procs[p].pc = "store_write" /\ procs'[p] # procs[p]

\* C16: a store performed at capacity evicts exactly the oldest entry, keeps
\* the other entries in their order, appends the new entry last and returns
\* its index len - 1; the matrix then still has MAX_MEMORY_ENTRIES rows.
C16_StoreAtCapacityEvictsOldest ==
    [][\A p \in Procs :
          (WriteStep(p) /\ Len(vm.entries) = MAX_MEMORY_ENTRIES)
              => /\ vm'.entries =
                      Append(Tail(vm.entries), Entry(procs[p].text, procs[p].vector))
                 /\ ret'.op = "store" /\ ret'.mid = procs[p].text
                 /\ ret'.val.ok
                 /\ ret'.val.v = Len(vm'.entries) - 1
                 /\ vm'.vectors # Null
                 /\ Len(vm'.vectors[1]) = MAX_MEMORY_ENTRIES]_vars

\* C17: the entry list and the matrix stay in lock-step, whatever the length
\* of the embeddings: the matrix is absent when the list is empty, and when a
\* matrix exists it has one row per entry, row i built from entry i.
C17_EntriesAndMatrixInLockStep ==
    /\ vm.entries = <<>> => vm.vectors = Null
    /\ vm.vectors # Null
           => /\ Len(vm.vectors[1]) = Len(vm.entries)
              /\ \A i \in 1..Len(vm.entries) :
                     vm.vectors[1][i] =
                         NormalizeRow(Pad(vm.entries[i].vector, Len(vm.vectors[1][1].v)))

\* Lemma for C15: whatever the list held before, it is within the capacity
\* after the write block of a store.
C15_WithinCapacityAfterStore ==
    [][\A p \in Procs : WriteStep(p) => Len(vm'.entries) <= MAX_MEMORY_ENTRIES]_vars

\* One store applied to a list of texts on its own: the list is cut to its
\* newest MAX_MEMORY_ENTRIES - 1 texts when it is full, and the text comes last.
StoreAlone(texts, text) ==
    LET keep == IF Len(texts) >= MAX_MEMORY_ENTRIES THEN MAX_MEMORY_ENTRIES - 1 ELSE Len(texts)
    IN Append(SubSeq(texts, Len(texts) - keep + 1, Len(texts)), text)

RECURSIVE StoresInTurn(_, _)
StoresInTurn(texts, stores) ==
    IF stores = <<>> THEN texts
    ELSE StoresInTurn(StoreAlone(texts, Head(stores)), Tail(stores))

\* The callers between the acquisition of the mutex and the end of the write.
Embedding == {p \in Procs : procs[p].pc \in {"store_embed", "store_write"}}

\* The stores that took the mutex and went through their write block, in the
\* order in which they took the mutex.
Written ==
    SelectSeq(hist.acq,
              LAMBDA text : /\ text \notin hist.failed
                            /\ \A p \in Embedding : procs[p].text # text)

\* C18: concurrent stores are serialised by the async mutex and are
\* linearisable: the entry list is the result of applying the stores one at a
\* time in the order in which they acquired the mutex, no store is lost or
\* duplicated, and the embed-then-append of one store never interleaves with
\* that of another.
C18_StoresSerialised ==
    /\ Cardinality(Embedding) <= 1
    /\ \A p \in Embedding : vm.async_lock = Some(p)
    /\ Texts(vm.entries) = StoresInTurn(hist.base, Written)
    /\ \A i, j \in 1..Len(vm.entries) : i # j => vm.entries[i].text # vm.entries[j].text

\* C18 witness: the second store call took the mutex before the first one;
\* both have returned and the list holds the second before the first.
C18_Witness ==
    /\ hist.acq = <<2, 1>>
    /\ Texts(vm.entries) = <<2, 1>>
    /\ \A p \in Procs : procs[p].pc = "idle"
    /\ ret.op = "store" /\ ret.mid = 1 /\ ret.val.ok

\* The step in which a store of caller p returns the error e.
StoreFails(p, e) ==
    /\ ret' # ret
    /\ ret'.op = "store" /\ ret'.tid = p
    /\ ~ret'.val.ok /\ ret'.val.v = e

\* C19: a store that fails with InvalidTag, EmbedderNotConfigured or a failed
\* embedding leaves the entries, the matrix and the file as they were.  The
\* tags are validated first: a store with invalid tags fails with InvalidTag
\* without any embedding request, whether or not an embedder is configured,
\* and a store with valid tags does not.
C19_FailedStoreChangesNothing ==
    [][/\ \A p \in Procs :
              \A e \in {"InvalidTag", "EmbedderNotConfigured", "EmbeddingFailed"} :
                  StoreFails(p, e)
                      => /\ vm'.entries = vm.entries
                         /\ vm'.vectors = vm.vectors
                         /\ vm'.file = vm.file
                         /\ procs'[p].pc = "idle"
                         /\ ret'.mid \notin Range(Texts(vm.entries))
       /\ \A p \in Procs :
              StoreFails(p, "InvalidTag")
                  => /\ ret'.val.tags \in InvalidTagSamples
                     /\ procs[p].pc = "idle"
                     /\ hist'.requests = hist.requests
                     /\ ret'.mid \notin hist'.requests
       /\ hist'.calls # hist.calls
              => \E p \in Procs :
                     /\ procs[p].pc = "idle"
                     /\ \/ StoreFails(p, "InvalidTag") /\ procs' = procs
                        \/ /\ procs'[p].pc = "store_lock"
                           /\ procs'[p].tags \in ValidTagSamples
                           /\ ret' = ret
       /\ \A p \in Procs :
              (procs[p].pc = "store_lock" /\ procs'[p] # procs[p])
                  => IF vm.embedder = Null
                     THEN StoreFails(p, "EmbedderNotConfigured")
                     ELSE /\ procs'[p].pc = "store_embed"
                          /\ hist'.requests = hist.requests \cup {procs[p].text}]_vars

\* C19 witness: a store with too many tags has just failed with InvalidTag on
\* a memory that has an embedder and holds an entry stored before, which is in
\* the list, in the matrix and in the file.
C19_Witness ==
    /\ ret.op = "store" /\ ~ret.val.ok /\ ret.val.v = "InvalidTag"
    /\ ret.val.tags = Repeat(<<"a">>, MAX_TAGS + 1)
    /\ vm.embedder # Null
    /\ Texts(vm.entries) = <<1>>
    /\ vm.vectors # Null
    /\ vm.file = Some(Lines(vm.entries))
    /\ hist.requests = {1}

\* C20: a disk write failure during store is suppressed.  The store still
\* succeeds and returns the index, the entry is last in the in-memory list and
\* the matrix is the one rebuilt from that list, with the entry's row last; no
\* error reaches the caller, whatever the file is left with.
C20_SaveFailureSuppressed ==
    [][\A p \in Procs :
          (WriteStep(p) /\ hist'.saved \in {"open_failed", "write_failed"})
              => /\ ret'.op = "store" /\ ret'.mid = procs[p].text /\ ret'.tid = p
                 /\ ret'.val.ok
                 /\ ret'.val.v = Len(vm'.entries) - 1
                 /\ vm'.entries[Len(vm'.entries)] = Entry(procs[p].text, procs[p].vector)
                 /\ Len(vm'.entries[1].vector) > 0 => vm'.vectors # Null
                 /\ vm'.vectors # Null
                        => /\ Len(vm'.vectors[1]) = Len(vm'.entries)
                           /\ vm'.vectors[1][Len(vm'.entries)] =
                                  NormalizeRow(Pad(procs[p].vector,
                                                   Len(vm'.entries[1].vector)))]_vars

\* C20 witness: the second store has returned index 1 although its write of
\* the file failed part-way; the list and the matrix hold both entries and the
\* file holds none.
C20_Witness ==
    /\ ret.op = "store" /\ ret.mid = 2 /\ ret.val.ok /\ ret.val.v = 1
    /\ hist.saved = "write_failed"
    /\ Texts(vm.entries) = <<1, 2>>
    /\ vm.vectors # Null
    /\ Len(vm.vectors[1]) = 2
    /\ vm.file = Some(<<>>)

\* the step of call_llm / embed that resolves the model key of caller p
ResolveStep(p) == procs[p].pc = "route_resolve" /\ procs'[p] # procs[p]

\* C21: alias resolution is total: a model key of the model map resolves to
\* the (backend, model id) it is mapped to, any other key resolves to a
\* configured backend with the key as model id, and the call fails with
\* BackendNotFound only when no backend is configured.
C21_AliasResolutionTotal ==
    [][\A p \in Procs :
         ResolveStep(p) =>
           LET key == procs[p].key
               sent == procs'[p].pc = "route_await"
           IN /\ (key \in DOMAIN router.model_map /\ sent) =>
                   <<procs'[p].backend, procs'[p].model>> = router.model_map[key]
              /\ (key \notin DOMAIN router.model_map /\ router.backends # {}) =>
                   /\ sent
                   /\ procs'[p].backend \in router.backends
                   /\ procs'[p].model = key
              /\ ~sent =>
                   /\ ret'.val.v = "BackendNotFound"
                   /\ router.backends = {}]_vars

\* C22: the router mutex is held for the resolution step only: a caller
\* whose request is in flight, or whose call has returned (with a result or
\* with any error), does not hold it, so whoever holds it is resolving and
\* gives it back in its own next step, whatever the other callers await.
C22_MutexOnlyForResolution ==
    /\ \A p \in Procs :
         procs[p].pc \in {"idle", "route_await", "route_status"} =>
           router.lock # Some(p)
    /\ router.lock # Null =>
         \E q \in Procs : router.lock = Some(q) /\ procs[q].pc = "route_resolve"

\* a request awaits its backend while the other caller, who took the
\* mutex after it, resolves its own
C22_Witness ==
    /\ procs["p1"].pc = "route_await"
    /\ procs["p2"].pc = "route_resolve"
    /\ router.lock = Some("p2")

\* the step of caller p that checks the status of the response it received
StatusStep(p) ==
    /\ procs[p].pc \in {"route_status", "adapter_status"}
    /\ procs'[p] # procs[p]

\* C23: a non-success HTTP status is never masked: an operation of the
\* router or of an adapter that received a response with a non-success
\* status returns an ApiError that carries the status, never a success.
C23_StatusNeverMasked ==
    [][\A p \in Procs :
         (StatusStep(p) /\ ~IsSuccess(procs[p].status)) =>
           /\ ~ret'.val.ok
           /\ ret'.val.v = "ApiError"
           /\ ret'.val.status = procs[p].status]_vars

\* the indices of an embedding response, in the order of the server
Indices(data) == [k \in 1..Len(data) |-> data[k].index]

\* C27: the embed of the OpenAI adapter returns the embeddings by their
\* index: in whatever order the server lists the entries of the input
\* texts, the i-th vector returned is the embedding of the i-th text.
C27_EmbedOrderedByIndex ==
    (/\ ret.op = "embed"
     /\ ret.mid = "openai"
     /\ procs[ret.tid].pc = "idle"
     /\ ret.val.ok) =>
      /\ hist.response # Null
      /\ Len(ret.val.v) = Len(hist.response[1].body[1])
      /\ \A i \in 1..Len(ret.val.v) : ret.val.v[i] = TextEmbedding(i - 1)

\* the server listed the entries of three texts as 2, 0, 1
C27_Witness ==
    /\ ret.op = "embed"
    /\ ret.mid = "openai"
    /\ procs[ret.tid].pc = "idle"
    /\ ret.val.ok
    /\ hist.response # Null
    /\ Indices(hist.response[1].body[1]) = <<2, 0, 1>>
    /\ ret.val.v = <<TextEmbedding(0), TextEmbedding(1), TextEmbedding(2)>>

\* C24: streaming stops at the terminal marker: once call_llm_stream has
\* consumed `data: [DONE]` (OpenAI, llama.cpp) or the first object with
\* done: true (Ollama), it sends no further token and adds nothing to the
\* text it returns, whatever follows in the same or in later chunks.
C24_StopsAtTerminalMarker ==
    [][stream.terminal =>
         /\ stream'.sent = stream.sent
         /\ stream'.full_content = stream.full_content]_vars

\* C25: no adapter sends a zero-length token on the text channel, whatever
\* the contents of the stream are.
C25_NoEmptyToken == \A k \in 1..Len(stream.sent) : stream.sent[k] # <<>>

\* the contents of the data lines of a body, joined in order
RECURSIVE AllContent(_)
AllContent(body) ==
    IF body = <<>> THEN <<>>
    ELSE (IF Head(body).kind = "data" /\ Head(body).content # Null
          THEN Head(body).content[1] ELSE <<>>) \o AllContent(Tail(body))

\* nothing follows the line of the terminal marker
EndsAtTerminal(adapter, body) ==
    \A k \in 1..Len(body) : IsTerminalLine(adapter, <<body[k]>>) => k + 1 = Len(body)

StreamReturned == ret.op = "call_llm_stream" /\ procs[ret.tid].pc = "idle"

\* C26: a channel-send failure is not fatal and does not block the sender:
\* once the consumer has dropped the receiver no send waits, the call never
\* fails for the channel, and when it returns at the end of the body the
\* text is the contents of the stream joined in order, as if every send had
\* succeeded.  (An NDJSON stream ends at its first object with done: true.)
C26_SendFailureNotFatal ==
    /\ (procs["p1"].pc = "stream_lines" /\ ~stream.rx_open) => SendReady
    /\ StreamReturned => (ret.val.ok \/ ret.val.v \in {"HttpError", "ApiError"})
    /\ (/\ StreamReturned
        /\ ret.val.ok
        /\ ret.mid = "ollama" => EndsAtTerminal(ret.mid, hist.response[1].body)) =>
          /\ stream.net = <<>>
          /\ ret.val.v = AllContent(hist.response[1].body)

\* the consumer took nothing and dropped the receiver between the two sends
C26_Witness ==
    /\ StreamReturned
    /\ ret.val.ok
    /\ ~stream.rx_open
    /\ stream.queue = << <<"a">> >>
    /\ stream.sent = << <<"a">>, <<"b">> >>
    /\ ret.val.v = <<"a", "b">>

\* the step of evict_low_importance that deletes
EvictStep(p) == procs[p].pc = "evict" /\ procs'[p] # procs[p]

\* what eviction is to do for min_age_days read as the number of days
\* Age(days): exactly the rows below min_importance, created before now less
\* that many days and not superseded go, their number is returned, and the
\* other rows stay as they are, in their order
EvictsAsDesigned(p, Age(_)) ==
    LET Gone(row) ==
            /\ row.importance < procs[p].min_importance
            /\ row.created_at < procs[p].now - Age(procs[p].min_age_days)
            /\ row.superseded_by = Null
        kept == Keep(episodic.rows, Gone)
    IN /\ episodic'.rows = kept
       /\ ret'.val = Ok(Len(episodic.rows) - Len(kept))

\* C28: eviction deletes exactly the rows with importance < min_importance,
\* created before now - min_age_days and not superseded, returns their
\* number and leaves every other row unchanged; a superseded entry and an
\* entry younger than min_age_days are never evicted, however low their
\* importance after any number of decay_importance calls.
C28_EvictsExactlyOldLowUnsuperseded ==
    [][\A p \in Procs : EvictStep(p) => EvictsAsDesigned(p, NoCast)]_vars

\* the same for the days that the cast to i64 keeps
C28_EvictsWithinI64 ==
    [][\A p \in Procs :
         (EvictStep(p) /\ procs[p].min_age_days < Pow2(AgeBits - 1)) =>
           EvictsAsDesigned(p, NoCast)]_vars

\* a superseded row is never deleted by eviction
C28_SupersededStays ==
    [][\A p \in Procs :
         EvictStep(p) =>
           \A k \in 1..Len(episodic.rows) :
             episodic.rows[k].superseded_by # Null =>
               \E j \in 1..Len(episodic'.rows) : episodic'.rows[j] = episodic.rows[k]]_vars

\* the rows added to a mission since its last clear that pass the filters
Wanted(mission_id, agent_id, entry_type) ==
    {row \in hist.added :
       /\ row.mission_id = mission_id
       /\ agent_id = Null \/ row.agent_id = agent_id[1]
       /\ entry_type = Null \/ row.entry_type = entry_type[1]}

AddedAt(id) == (CHOOSE row \in hist.added : row.id = id).created_at

Returns(op) == ret'.op = op /\ (ret.op # op \/ ret' # ret)

\* C29: the workspace is append-only and mission-scoped: after any adds,
\* clear_missions and clears, query(m, agent_id?, entry_type?) returns
\* exactly the entries added for m since its last clear that match the
\* filters, in ascending creation order, each with the content it was added
\* with, whatever was added to or cleared from another mission; and
\* clear_mission(m) returns the number of entries it removed.
C29_QueryReturnsMissionEntries ==
    [][/\ Returns("query") =>
            LET rows == ret'.val.v
                wanted == Wanted(ret'.mid, ret'.val.agent_id, ret'.val.entry_type)
            IN /\ Len(rows) = Cardinality(wanted)
               /\ {rows[k] : k \in 1..Len(rows)} = {Selected(row) : row \in wanted}
               /\ \A k, j \in 1..Len(rows) :
                    k < j => AddedAt(rows[k].id) < AddedAt(rows[j].id)
       /\ Returns("clear_mission") =>
            /\ ret'.val.v = Cardinality({row \in hist.added : row.mission_id = ret'.mid})
            /\ \A k \in 1..Len(workspace') : workspace'[k].mission_id # ret'.mid
            /\ hist'.added = {row \in hist.added : row.mission_id # ret'.mid}]_vars

\* three rows, two of them r1's notes of m1 that were inserted in the
\* reverse of their creation order, and the query for r1's notes of m1
C29_Witness ==
    /\ ret.op = "query"
    /\ ret.mid = "m1"
    /\ ret.val.agent_id = Some("r1")
    /\ ret.val.entry_type = Some("note")
    /\ Len(ret.val.v) = 2
    /\ Len(workspace) = 3
    /\ \E k, j \in 1..Len(workspace) :
         /\ k < j
         /\ workspace[k].created_at > workspace[j].created_at
         /\ QueryWhere(workspace[k], "m1", Some("r1"), Some("note"))
         /\ QueryWhere(workspace[j], "m1", Some("r1"), Some("note"))

\* a step of the loop of clear_completed, or its return
ClearStep(p) == procs[p].pc = "clear_remove" /\ procs'[p] # procs[p]

\* C30: clear_completed removes exactly the missions that are completed or
\* failed, returns the number of missions it removed and never removes a
\* running mission, also when submit_mission and other clear_completed
\* calls run at the same time.
C30_ClearRemovesOnlyTerminal ==
    [][\A p \in Procs :
         ClearStep(p) =>
           /\ \A id \in (DOMAIN missions) \ (DOMAIN missions') : IsTerminal(missions[id])
           /\ procs'[p].pc = "idle" => ret'.val = procs[p].removed]_vars

\* the embedding request of a store is under way
StoreInFlight(p) == procs[p].pc = "store_embed"

\* another caller is not held up by a lock of the vector memory
NotBlocked(q) ==
    /\ procs[q].pc = "idle" =>
         /\ ENABLED (vm_clear(q) /\ OnlyVM)
         /\ ENABLED (vm_count(q) /\ OnlyVM)
         /\ ENABLED (search_begin(q, Null, Null) /\ OnlyVM)

\* C31, as stated: while the embedding request of a store is in flight the
\* store holds no lock of the vector memory, and neither another store nor
\* a search, count or clear waits for it.
C31_NoLockAcrossIO ==
    \A p \in Procs :
        StoreInFlight(p) =>
          /\ vm.inner # Some(p)
          /\ vm.async_lock # Some(p)
          /\ \A q \in Procs \ {p} :
               /\ NotBlocked(q)
               /\ procs[q].pc = "store_lock" => ENABLED (store_acquire(q) /\ OnlyVM)

\* C31, amended: while the embedding request of a store is in flight the
\* store holds the async mutex of the stores and not the read/write lock, so
\* a search, count or clear is not held up by it, and another store waits.
C31_NoDataLockAcrossIO ==
    \A p \in Procs :
        StoreInFlight(p) =>
          /\ vm.inner = Null
          /\ vm.async_lock = Some(p)
          /\ \A q \in Procs \ {p} :
               /\ NotBlocked(q)
               /\ procs[q].pc = "store_lock" => ~ENABLED (store_acquire(q) /\ OnlyVM)

\* a clear has run while the second store was waiting for its embedding,
\* and another store waits for the mutex
C31_Witness ==
    /\ StoreInFlight("p1")
    /\ procs["p1"].text = 2
    /\ hist.acq = <<2>>
    /\ ret.op = "vm_clear"
    /\ vm.entries = <<>>
    /\ procs["p2"].pc = "store_lock"

\* C32: all stored vectors share one dimension, that of the first entry,
\* whatever the lengths of the vectors the embedder returns.
C32_OneDimension ==
    \A i \in 1..Len(vm.entries) :
        Len(vm.entries[i].vector) = Len(vm.entries[1].vector)

\* a search has returned a list, and no later call has begun
SearchReturned ==
    /\ ret.op = "search"
    /\ ret.val.ok
    /\ procs[ret.tid].pc = "idle"

\* the temporal predicates as the design states them
Passes(temporal_filter, e, now) ==
    IF temporal_filter = Some("current")
    THEN /\ (e.valid_from = 0 \/ e.valid_from <= now)
         /\ (e.valid_to = 0 \/ e.valid_to >= now)
    ELSE IF temporal_filter = Some("historical")
         THEN e.valid_to > 0 /\ e.valid_to < now
         ELSE TRUE

\* the cosine similarity of an entry's own vector with the query
SimilarityOf(e, query) == Score(NormalizeRow(Pad(e.vector, Len(query))), query)

\* entry i ranks before entry j: higher similarity, or the same and i first
RanksBefore(entries, query, i, j) ==
    \/ Higher(SimilarityOf(entries[i], query), SimilarityOf(entries[j], query))
    \/ /\ SameScore(SimilarityOf(entries[i], query), SimilarityOf(entries[j], query))
       /\ i < j

IndexOf(entries, text) == CHOOSE i \in 1..Len(entries) : entries[i].text = text

Smaller(a, b) == IF a < b THEN a ELSE b

\* C33: a search returns at most top_k results, in descending similarity
\* with ties in ascending entry index, and they are the top_k best among
\* the entries that pass the temporal filter.
C33_TopKAfterFilter ==
    SearchReturned =>
      LET h == ret.mid
          results == ret.val.v
          passing == {i \in 1..Len(h.entries) :
                          Passes(h.temporal_filter, h.entries[i], h.now)}
          texts == {results[k].text : k \in 1..Len(results)}
          found == {i \in 1..Len(h.entries) : h.entries[i].text \in texts}
      IN /\ Len(results) = Smaller(h.top_k, Cardinality(passing))
         /\ found \subseteq passing
         /\ Cardinality(found) = Len(results)
         /\ \A k \in 1..Len(results) :
              SameScore(results[k].score,
                        SimilarityOf(h.entries[IndexOf(h.entries, results[k].text)], h.query))
         /\ \A k, l \in 1..Len(results) :
              k < l => RanksBefore(h.entries, h.query,
                                   IndexOf(h.entries, results[k].text),
                                   IndexOf(h.entries, results[l].text))
         /\ \A i \in passing \ found, j \in found :
              RanksBefore(h.entries, h.query, j, i)

\* C39: a search that runs along with stores, evictions and clear works on
\* one consistent snapshot of entries and matrix: every returned entry
\* carries the score of its own matrix row, and no index of the result lies
\* outside the snapshot.
C39_SearchOnConsistentSnapshot ==
    /\ (ret.op = "search" /\ ~ret.val.ok) => ret.val.v # "index out of bounds"
    /\ (SearchReturned /\ ret.mid.query # <<>>) =>
         LET h == ret.mid
             results == ret.val.v
         IN \A k \in 1..Len(results) :
              /\ \E i \in 1..Len(h.entries) : h.entries[i].text = results[k].text
              /\ SameScore(results[k].score,
                           SimilarityOf(h.entries[IndexOf(h.entries, results[k].text)],
                                        h.query))

\* the same for a memory that no store has left with a vector longer than
\* the first one
C39_SnapshotOfSoundMemory ==
    (SearchReturned /\ ~BuildPanics(ret.mid.entries)) =>
        C39_SearchOnConsistentSnapshot

\* the tokens of a body that arrives as one chunk
RECURSIVE LinesOfChunk(_, _, _)
LinesOfChunk(adapter, buffer, tokens) ==
    LET newline_pos == FindNewline(buffer)
        line == LineOf(SubSeq(buffer, 1, newline_pos - 1))
        rest == SubSeq(buffer, newline_pos + 1, Len(buffer))
        token == LineToken(adapter, line)
        sent == IF token = Null THEN tokens ELSE Append(tokens, token[1])
    IN IF newline_pos = 0 THEN tokens
       ELSE IF LineBreaks(adapter, line) THEN sent
       ELSE LinesOfChunk(adapter, rest, sent)

InOneChunk(adapter, body) == LinesOfChunk(adapter, from_utf8_lossy(body), <<>>)

\* a streaming call has read its body to the end and returned
StreamReadToEnd ==
    /\ ret.op = "call_llm_stream"
    /\ ret.val.ok
    /\ procs[ret.tid].pc = "idle"
    /\ hist.response # Null

\* C34: the tokens sent and the text returned by call_llm_stream do not
\* depend on how the body is cut into chunks: every cut gives what the body
\* gives as one chunk.
C34_ChunkBoundariesDoNotMatter ==
    StreamReadToEnd =>
        /\ stream.sent = InOneChunk(ret.mid, hist.response[1].body)
        /\ ret.val.v = Flatten(InOneChunk(ret.mid, hist.response[1].body))

\* the same for bodies in which no chunk ends inside a character, and for
\* Ollama bodies that end with their done object
C34_WholeCharacters ==
    (/\ StreamReadToEnd
     /\ ret.mid = "ollama" => EndsAtTerminal(ret.mid, hist.response[1].body)) =>
        /\ stream.sent = InOneChunk(ret.mid, hist.response[1].body)
        /\ ret.val.v = Flatten(InOneChunk(ret.mid, hist.response[1].body))

\* the insert of a submission that returns Ok
SubmitStep(p) == procs[p].pc = "submit_insert" /\ procs'[p].pc = "idle"

\* C35: of two submit_mission calls with one mission id that run at the
\* same time at most one succeeds, and a mission that was submitted is never
\* replaced by another submission.
C35_SubmissionExclusive ==
    [][\A p \in Procs :
         SubmitStep(p) => procs[p].mission_id \notin DOMAIN missions]_vars

\* a start_task call that set a task running
StartStep == ret'.op = "start_task" /\ missions' # missions

\* C36: start_task succeeds only for a task that get_ready_tasks would
\* return at that moment, a pending task of the current wave; a task of a
\* later wave is not set running before its wave is reached.
C36_StartRespectsWaves ==
    [][StartStep => ret'.tid \in Range(GetReadyTasks(ret'.mid))]_vars

\* C37: for a mission whose dependency graph has no cycle, get_ready_tasks
\* returns a task only when every task it depends on is completed or
\* failed, after any calls of start_task, complete_task, fail_task and
\* cancel_mission.
C37_ReadyOnlyAfterDependencies ==
    \A mid \in DOMAIN missions :
        LET m == missions[mid]
        IN Acyclic(m.tasks) =>
             \A k \in 1..Len(GetReadyTasks(mid)) :
                 \A d \in m.tasks[GetReadyTasks(mid)[k]].depends_on \cap DOMAIN m.tasks :
                     Terminal(m.tasks[d].status)

\* get_ready_tasks has returned D of the diamond, whose two dependencies
\* are terminal, one of them failed
C37_Witness ==
    /\ ret.op = "get_ready_tasks"
    /\ ret.mid \in DOMAIN missions
    /\ ret.val = <<"D">>
    /\ LET m == missions[ret.mid]
       IN /\ Acyclic(m.tasks)
          /\ m.tasks["D"].depends_on = {"B", "C"}
          /\ m.tasks["B"].status = "completed"
          /\ m.tasks["C"].status = "failed"

\* C38: of two messages of equal priority to one recipient, the one whose
\* insert was committed first has the earlier created_at and is popped
\* first, for every interleaving of send and pop_next calls.
C38_FifoInCommitOrder ==
    \A i, j \in 1..Len(bus.rows) :
        (/\ i < j
         /\ bus.rows[i].recipient = bus.rows[j].recipient
         /\ bus.rows[i].priority = bus.rows[j].priority) =>
            /\ bus.rows[i].created_at < bus.rows[j].created_at
            /\ bus.rows[j].processed_at # Null => bus.rows[i].processed_at # Null

====
